---- MODULE Spec2Model ----
(***************************************************************************)
(* A model of the wallet service: the ledger (wallets, transactions), the  *)
(* Paystack webhook that credits deposits, wallet-to-wallet transfers and  *)
(* the authentication of wallet requests by API key or JWT.                *)
(*                                                                         *)
(* Every repository call of the code commits on its own                    *)
(* (db.add / db.commit / db.refresh), so a request is a sequence of        *)
(* database statements, and the statements of concurrent requests          *)
(* interleave.  A request is modelled by one process p: req[p] holds its   *)
(* inputs, the rows its SQLAlchemy session has loaded, and its response.   *)
(* Money is a Decimal with two places, held as a count of hundredths.      *)
(***************************************************************************)
EXTENDS Integers, Sequences, FiniteSets, TLC

VARIABLES
    users,          \* users table:        id -> row
    wallets,        \* wallets table:      id -> row
    transactions,   \* transactions table: a set of rows (reference is unique)
    api_keys,       \* api_keys table:     id -> row
    now,            \* datetime.now(timezone.utc)
    req,            \* the requests: process -> inputs, session state, response
    pre             \* history: the ledger as it was when a request started

vars == <<users, wallets, transactions, api_keys, now, req, pre>>

----------------------------------------------------------------------------
(* Bounds *)

\* Requests handled concurrently (specification Spec).
NumProcs == 2

\* Webhook deliveries made one after another (specification SpecWebhook).
NumSeq == 3

\* Transfers made one after another (specification SpecTransfer).
NumTransfers == 2

\* Authenticated wallet requests made one after another (specification SpecAuth).
NumAuth == 1

\* API key requests made one after another (specification SpecKeys).
NumKeyReqs == 2

\* The clock runs from 0 to MaxNow.
MaxNow == 3

\* Google sign-ins made one after another (specification SpecOAuth).
NumLogins == 2

Procs == 1..NumProcs
SeqProcs == 1..NumSeq
TransferProcs == 1..NumTransfers
AuthProcs == 1..NumAuth
KeyProcs == 1..NumKeyReqs
LoginProcs == 1..NumLogins
AllProcs ==
    Procs \cup SeqProcs \cup TransferProcs \cup AuthProcs \cup KeyProcs \cup LoginProcs

----------------------------------------------------------------------------
(* Values *)

NULL == "NULL"

\* Decimal(n): the whole number n as a two-place Decimal (hundredths).
Decimal(n) == n * 100

\* A variant of the conversion that takes the kobo for whole naira.
KoboToNaira_Unconverted(amount_kobo) == Decimal(amount_kobo)

\* webhook_service.py line 41: amount = Decimal(amount_kobo) / 100
KoboToNaira(amount_kobo) == Decimal(amount_kobo) \div 100

UserIds == {1, 2, 3}

\* generate_wallet_number(): 13 decimal digits
WalletNumbers == [w \in UserIds |->
    CASE w = 1 -> "1000000000001"
      [] w = 2 -> "2000000000002"
      [] OTHER -> "3000000000003"]

UnknownWalletNumber == "9999999999999"

\* Opening balances, in hundredths (2.00, 1.00 and 0.00).
OpeningBalance == [w \in UserIds |->
    CASE w = 1 -> 200
      [] w = 2 -> 100
      [] OTHER -> 0]

Permission == {"read", "deposit", "transfer"}

\* The bearer token of a request.  jwt.decode either verifies (signature
\* and expiry) and yields the payload, or raises JWTError.
NoToken == [present |-> FALSE, verifies |-> FALSE, sub |-> 0]
BadToken == [present |-> TRUE, verifies |-> FALSE, sub |-> 0]
Token(u) == [present |-> TRUE, verifies |-> TRUE, sub |-> u]

\* A user id that no row of users has.
GhostUser == Cardinality(UserIds) + 1

\* hmac.new(secret, payload, sha512).hexdigest(), taken to be injective.
Hmac(secret, payload) == [secret |-> secret, payload |-> payload]

PAYSTACK_WEBHOOK_SECRET == "whsec"

WebhookBody(event, reference, amount, status) ==
    [event |-> event, reference |-> reference, amount |-> amount, status |-> status]

NoBody == WebhookBody(NULL, NULL, 0, NULL)

\* A raw body that is not JSON.
Unparseable == WebhookBody("<not json>", NULL, 0, NULL)

\* secrets.token_hex(8): unique per request.
TransferReference(p) == "TRF_" \o ToString(p)

DepositReference(p) == "DEP_" \o ToString(p)

IdleReq == [
    kind |-> "idle", pc |-> "idle",
    \* inputs
    x_api_key |-> "", credentials |-> NoToken,
    wallet_number |-> NULL, amount |-> 0, reference |-> NULL,
    name |-> "", permissions |-> {}, expiry |-> <<>>, key_id |-> 0,
    body |-> NoBody, signature |-> Hmac(NULL, NoBody),
    google_id |-> NULL, email |-> NULL,
    fault |-> "none",
    \* the session
    user_id |-> 0, api_key_id |-> 0,
    sender_id |-> 0, sender_balance |-> 0,
    recipient_id |-> 0, recipient_balance |-> 0,
    tx_ref |-> NULL, wallet_id |-> 0, wallet_balance |-> 0,
    \* what the request committed
    debited |-> 0, credited |-> 0,
    \* response
    status_code |-> 0, detail |-> "", balance |-> 0,
    tx_status |-> NULL, items |-> {},
    expires_at |-> 0, new_key_id |-> 0, api_key |-> NULL, listing |-> <<>>
]

----------------------------------------------------------------------------
(* The tables as the service finds them: three users with one wallet each  *)
(* (user 3 has been deactivated), two deposits that initialize_deposit     *)
(* left pending, and four API keys.                                        *)

GoogleId(u) == "google_" \o ToString(u)

Email(u) == "user" \o ToString(u) \o "@example.com"

InitUsers == [u \in UserIds |->
    [id |-> u, is_active |-> (u # 3), google_id |-> GoogleId(u), email |-> Email(u)]]

InitWallets == [w \in UserIds |->
    [id |-> w, user_id |-> w, wallet_number |-> WalletNumbers[w],
     balance |-> OpeningBalance[w]]]

\* A variant of the pending row that carries no external reference.
Deposit_NoExternalReference(reference, wallet_id, amount) ==
    [reference |-> reference, type |-> "deposit", status |-> "pending",
     amount |-> amount, wallet_id |-> wallet_id,
     recipient_wallet_number |-> NULL, paystack_reference |-> NULL]

Deposit(reference, wallet_id, amount) ==
    [reference |-> reference, type |-> "deposit", status |-> "pending",
     amount |-> amount, wallet_id |-> wallet_id,
     recipient_wallet_number |-> NULL, paystack_reference |-> reference]

InitTransactions == {Deposit("DEP_A", 1, 100), Deposit("DEP_B", 2, 200)}

APIKey(id, user_id, permissions, expires_at, is_active) ==
    [id |-> id, key |-> "sk_" \o ToString(id), user_id |-> user_id,
     is_active |-> is_active, permissions |-> permissions,
     expires_at |-> expires_at, last_used_at |-> -1,
     name |-> "key " \o ToString(id), created_at |-> id - 10]

InitAPIKeys == [k \in 1..4 |->
    CASE k = 1 -> APIKey(1, 1, {"read", "deposit", "transfer"}, 2, TRUE)
      [] k = 2 -> APIKey(2, 2, {"read"}, 9, TRUE)
      [] k = 3 -> APIKey(3, 1, {"read", "transfer"}, 9, FALSE)
      [] OTHER -> APIKey(4, 2, {"read", "deposit", "transfer"}, 1, TRUE)]

\* The tables and the clock as a request finds them.
Snapshot ==
    [wallets |-> wallets, transactions |-> transactions,
     api_keys |-> api_keys, now |-> now]

Init ==
    /\ users = InitUsers
    /\ wallets = InitWallets
    /\ transactions = InitTransactions
    /\ api_keys = InitAPIKeys
    /\ now = 0
    /\ req = [p \in AllProcs |-> IdleReq]
    /\ pre = [p \in AllProcs |->
                [wallets |-> InitWallets, transactions |-> InitTransactions,
                 api_keys |-> InitAPIKeys, now |-> 0]]

----------------------------------------------------------------------------
(* models/api_key.py *)

\* A variant of is_expired with the comparison turned round.
is_expired_Reversed(api_key) == now < api_key.expires_at

\* A variant of is_expired that holds of active keys alone.
is_expired_AndActive(api_key) == now > api_key.expires_at /\ api_key.is_active

\* APIKey.is_expired
is_expired(api_key) == now > api_key.expires_at

\* A variant of is_valid that only looks at the expiry.
is_valid_IgnoresActive(api_key) == ~is_expired(api_key)

\* APIKey.is_valid
is_valid(api_key) == api_key.is_active /\ ~is_expired(api_key)

----------------------------------------------------------------------------
(* api/dependencies.py *)

AuthOk(user_id, api_key_id) ==
    [ok |-> TRUE, user_id |-> user_id, api_key_id |-> api_key_id,
     status_code |-> 200, detail |-> ""]

AuthError(status_code, detail) ==
    [ok |-> FALSE, user_id |-> 0, api_key_id |-> 0,
     status_code |-> status_code, detail |-> detail]

\* APIKeyRepository.get_by_key: the ids of the rows with that key (at most one)
get_by_key(key) == {k \in DOMAIN api_keys : api_keys[k].key = key}

\* utils/security.py decode_access_token: the payload, or None
decode_access_token(token) ==
    IF token.verifies THEN [decoded |-> TRUE, sub |-> token.sub]
    ELSE [decoded |-> FALSE, sub |-> 0]

get_current_user_from_jwt(credentials) ==
    IF ~credentials.present
    THEN AuthError(401, "Authentication required")
    ELSE LET payload == decode_access_token(credentials) IN
         IF ~payload.decoded
         THEN AuthError(401, "Could not validate credentials")
         ELSE IF payload.sub = 0
         THEN AuthError(401, "Could not validate credentials")
         ELSE IF payload.sub \notin DOMAIN users
         THEN AuthError(401, "User not found")
         ELSE IF ~users[payload.sub].is_active
         THEN AuthError(403, "Inactive user")
         ELSE AuthOk(payload.sub, 0)

get_api_key_auth(x_api_key) ==
    IF x_api_key = ""
    THEN AuthError(401, "API key required")
    ELSE IF get_by_key(x_api_key) = {}
    THEN AuthError(401, "Invalid API key")
    ELSE LET api_key == api_keys[CHOOSE k \in get_by_key(x_api_key) : TRUE] IN
         IF ~is_valid(api_key)
         THEN IF is_expired(api_key)
              THEN AuthError(401, "API key has expired")
              ELSE AuthError(401, "API key is inactive")
         ELSE AuthOk(0, api_key.id)

\* A variant of get_current_user_or_api_key that tries the JWT first.
get_current_user_or_api_key_JwtFirst(x_api_key, credentials) ==
    IF credentials.present /\ get_current_user_from_jwt(credentials).ok
    THEN get_current_user_from_jwt(credentials)
    ELSE IF x_api_key # "" /\ get_api_key_auth(x_api_key).ok
    THEN get_api_key_auth(x_api_key)
    ELSE AuthError(401, "Valid authentication required (JWT token or API key)")

\* The tuple (user, api_key) of the code: user_id = 0 or api_key_id = 0 is None.
get_current_user_or_api_key(x_api_key, credentials) ==
    IF x_api_key # "" /\ get_api_key_auth(x_api_key).ok
    THEN get_api_key_auth(x_api_key)
    ELSE IF credentials.present /\ get_current_user_from_jwt(credentials).ok
    THEN get_current_user_from_jwt(credentials)
    ELSE AuthError(401, "Valid authentication required (JWT token or API key)")

\* APIKeyRepository.update_last_used, called by get_api_key_auth on success
update_last_used(auth) ==
    IF auth.ok /\ auth.api_key_id # 0
    THEN [api_keys EXCEPT ![auth.api_key_id].last_used_at = now]
    ELSE api_keys

\* A variant of check_permission that passes every key that holds a permission.
check_permission_AnyPermission(api_key_permissions, required_permission) ==
    api_key_permissions # {}

\* utils/permissions.py check_permission: TRUE when it does not raise
check_permission(api_key_permissions, required_permission) ==
    required_permission \in api_key_permissions

\* A variant of Authorize that acts for the user of the bearer token when
\* the request carries one beside its API key.
Authorize_TokenOwner(x_api_key, credentials, required_permission) ==
    LET auth == get_current_user_or_api_key(x_api_key, credentials) IN
    IF ~auth.ok THEN auth
    ELSE IF auth.api_key_id # 0
    THEN IF check_permission(api_keys[auth.api_key_id].permissions, required_permission)
         THEN IF credentials.present /\ get_current_user_from_jwt(credentials).ok
              THEN AuthOk(credentials.sub, auth.api_key_id)
              ELSE AuthOk(api_keys[auth.api_key_id].user_id, auth.api_key_id)
         ELSE AuthError(403, "API key lacks required permission")
    ELSE auth

\* What every wallet route does first: resolve the principal, then, for an
\* API key, check its permission and act for the key's owner.
Authorize(x_api_key, credentials, required_permission) ==
    LET auth == get_current_user_or_api_key(x_api_key, credentials) IN
    IF ~auth.ok THEN auth
    ELSE IF auth.api_key_id # 0
    THEN IF check_permission(api_keys[auth.api_key_id].permissions, required_permission)
         THEN AuthOk(api_keys[auth.api_key_id].user_id, auth.api_key_id)
         ELSE AuthError(403, "API key lacks required permission")
    ELSE auth

----------------------------------------------------------------------------
(* db/repositories *)

\* WalletRepository.get_by_user_id / get_by_wallet_number: ids of the rows found
get_by_user_id(user_id) == {w \in DOMAIN wallets : wallets[w].user_id = user_id}

get_by_wallet_number(wallet_number) ==
    {w \in DOMAIN wallets : wallets[w].wallet_number = wallet_number}

\* A variant of add_to_balance that assigns the amount instead of adding it.
add_to_balance_Assign(wallet_id, loaded, amount) ==
    [wallets EXCEPT ![wallet_id].balance = amount]

\* WalletRepository.add_to_balance: wallet.balance += amount; commit.  The
\* balance the session holds for the row is `loaded`; the UPDATE writes the sum.
add_to_balance(wallet_id, loaded, amount) ==
    [wallets EXCEPT ![wallet_id].balance = loaded + amount]

\* WalletRepository.deduct_from_balance: wallet.balance -= amount; commit.
deduct_from_balance(wallet_id, loaded, amount) ==
    [wallets EXCEPT ![wallet_id].balance = loaded - amount]

\* TransactionRepository.get_by_wallet_id
get_by_wallet_id(wallet_id) == {t \in transactions : t.wallet_id = wallet_id}

\* A variant of the lookup that finds the deposits whatever reference is asked for.
get_by_paystack_reference_AnyDeposit(paystack_ref) ==
    {t \in transactions : t.type = "deposit"}

\* TransactionRepository.get_by_paystack_reference
get_by_paystack_reference(paystack_ref) ==
    {t \in transactions : t.paystack_reference = paystack_ref}

\* TransactionRepository.get_by_reference
get_by_reference(reference) == {t \in transactions : t.reference = reference}

\* A variant of update_status that marks the row Success whatever status is passed.
update_status_AlwaysSuccess(reference, status) ==
    {IF t.reference = reference THEN [t EXCEPT !.status = "success"] ELSE t :
        t \in transactions}

\* TransactionRepository.update_status: transaction.status = status; commit.
\* The UPDATE names the row by its key, whatever its status is by now.
update_status(reference, status) ==
    {IF t.reference = reference THEN [t EXCEPT !.status = status] ELSE t :
        t \in transactions}

\* TransactionRepository.create, as transfer_funds calls it
Transfer(reference, amount, wallet_id, recipient_wallet_number) ==
    [reference |-> reference, type |-> "transfer", status |-> "success",
     amount |-> amount, wallet_id |-> wallet_id,
     recipient_wallet_number |-> recipient_wallet_number,
     paystack_reference |-> NULL]

----------------------------------------------------------------------------
(* Requests *)

Done(r, status_code, detail) ==
    [r EXCEPT !.pc = "done", !.status_code = status_code, !.detail = detail]

\* except Exception: db.rollback(); raise HTTPException(500)
\* Only the statement that raised is undone: the commits before it stand.
Failed(r) == Done(r, 500, "failed")

----------------------------------------------------------------------------
(* services/paystack_service.py, api/v1/routes/webhook.py,                *)
(* services/webhook_service.py                                            *)

\* A variant of the signature check that only tells whether the signature was
\* made with the webhook secret, whatever the payload it was made for.
verify_webhook_signature_AnyPayload(payload, signature) ==
    signature.secret = PAYSTACK_WEBHOOK_SECRET

verify_webhook_signature(payload, signature) ==
    signature = Hmac(PAYSTACK_WEBHOOK_SECRET, payload)

\* routes/webhook.py line 39: webhook_data = await request.json()
Parses(body) == body # Unparseable

\* A variant of the status check that tests for the wrong status.
AlreadyProcessed_WrongStatus(transaction) == transaction.status = "failed"

\* process_payment_webhook line 51: if transaction.status == TransactionStatus.SUCCESS
AlreadyProcessed(transaction) == transaction.status = "success"

\* POST /wallet/paystack/webhook up to the status check of
\* process_payment_webhook (line 51): verifies, parses and looks the
\* transaction up.
PaystackWebhook(p, body, signature, fault) ==
    /\ req[p].pc = "idle"
    /\ LET r == [req[p] EXCEPT !.kind = "webhook", !.body = body,
                               !.signature = signature, !.fault = fault]
           found == get_by_paystack_reference(body.reference)
       IN
       req' = [req EXCEPT ![p] =
          IF ~verify_webhook_signature(body, signature)
          THEN Done(r, 401, "Invalid webhook signature")
          ELSE IF ~Parses(body)
          THEN Done(r, 500, "Internal Server Error")
          ELSE IF body.event # "charge.success"
          THEN Done(r, 200, "")
          ELSE IF body.reference = NULL \/ body.amount = 0
          THEN Done(r, 400, "Invalid webhook data")
          ELSE IF found = {}
          THEN Done(r, 200, "")
          ELSE LET transaction == CHOOSE t \in found : TRUE IN
               IF AlreadyProcessed(transaction)
               THEN Done(r, 200, "")
               ELSE [r EXCEPT !.pc = "update_status",
                              !.tx_ref = transaction.reference,
                              !.wallet_id = transaction.wallet_id]]
    /\ pre' = [pre EXCEPT ![p] = Snapshot]
    /\ UNCHANGED <<users, wallets, transactions, api_keys, now>>

\* lines 56-57 and 63-66: transaction_repo.update_status(...)
WebhookUpdateStatus(p) ==
    /\ req[p].pc = "update_status"
    /\ IF req[p].fault = "update_status"
       THEN /\ req' = [req EXCEPT ![p] = Failed(req[p])]
            /\ UNCHANGED transactions
       ELSE IF req[p].body.status = "success"
       THEN /\ transactions' = update_status(req[p].tx_ref, "success")
            /\ req' = [req EXCEPT ![p].pc = "get_wallet"]
       ELSE /\ transactions' = update_status(req[p].tx_ref, "failed")
            /\ req' = [req EXCEPT ![p] = Done(req[p], 200, "")]
    /\ UNCHANGED <<users, wallets, api_keys, now, pre>>

\* line 60: wallet = wallet_repo.get_by_user_id(transaction.wallet.user_id)
WebhookGetWallet(p) ==
    /\ req[p].pc = "get_wallet"
    /\ LET found == get_by_user_id(wallets[req[p].wallet_id].user_id) IN
       req' = [req EXCEPT ![p] =
          IF found = {}
          THEN Done(req[p], 200, "")
          ELSE LET w == CHOOSE w \in found : TRUE IN
               [req[p] EXCEPT !.pc = "add_to_balance", !.wallet_id = w,
                              !.wallet_balance = wallets[w].balance]]
    /\ UNCHANGED <<users, wallets, transactions, api_keys, now, pre>>

\* lines 61-66: wallet_repo.add_to_balance(wallet, amount); db.commit()
WebhookAddToBalance(p) ==
    /\ req[p].pc = "add_to_balance"
    /\ req[p].kind = "webhook"
    /\ LET amount == KoboToNaira(req[p].body.amount) IN
       IF req[p].fault = "add_to_balance"
       THEN /\ req' = [req EXCEPT ![p] = Failed(req[p])]
            /\ UNCHANGED wallets
       ELSE /\ wallets' = add_to_balance(req[p].wallet_id, req[p].wallet_balance, amount)
            /\ req' = [req EXCEPT ![p] =
                    Done([req[p] EXCEPT !.credited = amount], 200, "")]
    /\ UNCHANGED <<users, transactions, api_keys, now, pre>>

----------------------------------------------------------------------------
(* api/v1/routes/wallet.py, services/wallet_service.py *)

\* schemas/wallet.py TransferRequest: wallet_number of 13 characters, amount gt 0
TransferRequestValid(wallet_number, amount) ==
    Len(wallet_number) = 13 /\ amount > 0

\* Variants of the balance check: one that only refuses an overdrawn wallet,
\* one that also refuses a transfer of the whole balance.
InsufficientBalance_Overdrawn(balance, amount) == balance < 0

InsufficientBalance_Strict(balance, amount) == balance <= amount

\* transfer_funds line 106: if sender_wallet.balance < amount
InsufficientBalance(balance, amount) == balance < amount

\* POST /wallet/transfer up to the balance check of transfer_funds (line 111):
\* authenticates, validates the body, loads the sender's wallet.
TransferRoute(p, x_api_key, credentials, wallet_number, amount, fault) ==
    /\ req[p].pc = "idle"
    /\ LET r == [req[p] EXCEPT !.kind = "transfer", !.x_api_key = x_api_key,
                               !.credentials = credentials,
                               !.wallet_number = wallet_number,
                               !.amount = amount, !.fault = fault]
           principal == get_current_user_or_api_key(x_api_key, credentials)
           auth == Authorize(x_api_key, credentials, "transfer")
           found == get_by_user_id(auth.user_id)
       IN
       /\ api_keys' = update_last_used(principal)
       /\ req' = [req EXCEPT ![p] =
            IF ~principal.ok
            THEN Done(r, principal.status_code, principal.detail)
            ELSE IF ~TransferRequestValid(wallet_number, amount)
            THEN Done(r, 422, "validation error")
            ELSE IF ~auth.ok
            THEN Done(r, auth.status_code, auth.detail)
            ELSE IF found = {}
            THEN Done(r, 404, "Wallet not found")
            ELSE LET w == CHOOSE w \in found : TRUE
                     s == [r EXCEPT !.user_id = auth.user_id,
                                    !.api_key_id = auth.api_key_id,
                                    !.sender_id = w,
                                    !.sender_balance = wallets[w].balance]
                 IN
                 IF amount <= 0
                 THEN Done(s, 400, "Amount must be greater than zero")
                 ELSE IF InsufficientBalance(s.sender_balance, amount)
                 THEN Done(s, 400, "Insufficient balance")
                 ELSE [s EXCEPT !.pc = "get_recipient"]]
    /\ pre' = [pre EXCEPT ![p] = Snapshot]
    /\ UNCHANGED <<users, wallets, transactions, now>>

\* transfer_funds lines 113-126: the recipient's wallet, and the self-transfer check
TransferGetRecipient(p) ==
    /\ req[p].pc = "get_recipient"
    /\ LET found == get_by_wallet_number(req[p].wallet_number) IN
       req' = [req EXCEPT ![p] =
          IF found = {}
          THEN Done(req[p], 404, "Recipient wallet not found")
          ELSE LET w == CHOOSE w \in found : TRUE IN
               IF req[p].sender_id = w
               THEN Done(req[p], 400, "Cannot transfer to your own wallet")
               ELSE [req[p] EXCEPT !.pc = "deduct_from_balance",
                                   !.recipient_id = w,
                                   !.recipient_balance = wallets[w].balance]]
    /\ UNCHANGED <<users, wallets, transactions, api_keys, now, pre>>

\* line 133: wallet_repo.deduct_from_balance(sender_wallet, amount)
TransferDeduct(p) ==
    /\ req[p].pc = "deduct_from_balance"
    /\ IF req[p].fault = "deduct_from_balance"
       THEN /\ req' = [req EXCEPT ![p] = Failed(req[p])]
            /\ UNCHANGED wallets
       ELSE /\ wallets' = deduct_from_balance(req[p].sender_id,
                                              req[p].sender_balance, req[p].amount)
            /\ req' = [req EXCEPT ![p].pc = "refresh_recipient",
                                  ![p].debited = req[p].amount]
    /\ UNCHANGED <<users, transactions, api_keys, now, pre>>

\* line 136, wallet.balance += amount: the commit of the deduction expired the
\* session's rows, so reading recipient_wallet.balance loads the row again.
TransferRefreshRecipient(p) ==
    /\ req[p].pc = "refresh_recipient"
    /\ req' = [req EXCEPT ![p].pc = "add_to_balance",
                          ![p].recipient_balance = wallets[req[p].recipient_id].balance]
    /\ UNCHANGED <<users, wallets, transactions, api_keys, now, pre>>

\* A variant of the credit in which every transfer is one database
\* transaction: the row a transfer has debited stays locked until the
\* transfer ends, and the credit of that row by another transfer waits.
TransferAdd_HoldingLock(p) ==
    /\ req[p].pc = "add_to_balance"
    /\ req[p].kind = "transfer"
    /\ \A q \in AllProcs \ {p} :
            ~ /\ req[q].kind = "transfer"
              /\ req[q].pc \in {"refresh_recipient", "add_to_balance",
                                "create_sender_transaction",
                                "create_recipient_transaction"}
              /\ req[q].sender_id = req[p].recipient_id
    /\ IF req[p].fault = "add_to_balance"
       THEN /\ req' = [req EXCEPT ![p] = Failed(req[p])]
            /\ UNCHANGED wallets
       ELSE /\ wallets' = add_to_balance(req[p].recipient_id,
                                         req[p].recipient_balance, req[p].amount)
            /\ req' = [req EXCEPT ![p].pc = "create_sender_transaction",
                                  ![p].credited = req[p].amount]
    /\ UNCHANGED <<users, transactions, api_keys, now, pre>>

\* line 136: wallet_repo.add_to_balance(recipient_wallet, amount)
TransferAdd(p) ==
    /\ req[p].pc = "add_to_balance"
    /\ req[p].kind = "transfer"
    /\ IF req[p].fault = "add_to_balance"
       THEN /\ req' = [req EXCEPT ![p] = Failed(req[p])]
            /\ UNCHANGED wallets
       ELSE /\ wallets' = add_to_balance(req[p].recipient_id,
                                         req[p].recipient_balance, req[p].amount)
            /\ req' = [req EXCEPT ![p].pc = "create_sender_transaction",
                                  ![p].credited = req[p].amount]
    /\ UNCHANGED <<users, transactions, api_keys, now, pre>>

\* lines 139-146: the sender's transaction row
TransferCreateSenderTransaction(p) ==
    /\ req[p].pc = "create_sender_transaction"
    /\ IF req[p].fault = "create_sender_transaction"
       THEN /\ req' = [req EXCEPT ![p] = Failed(req[p])]
            /\ UNCHANGED transactions
       ELSE /\ transactions' = transactions \cup
                {Transfer(TransferReference(p), req[p].amount, req[p].sender_id,
                          req[p].wallet_number)}
            /\ req' = [req EXCEPT ![p].pc = "create_recipient_transaction",
                                  ![p].tx_ref = TransferReference(p)]
    /\ UNCHANGED <<users, wallets, api_keys, now, pre>>

\* lines 149-158: the recipient's transaction row, and the return
TransferCreateRecipientTransaction(p) ==
    /\ req[p].pc = "create_recipient_transaction"
    /\ IF req[p].fault = "create_recipient_transaction"
       THEN /\ req' = [req EXCEPT ![p] = Failed(req[p])]
            /\ UNCHANGED transactions
       ELSE /\ transactions' = transactions \cup
                {Transfer(TransferReference(p) \o "_IN", req[p].amount,
                          req[p].recipient_id,
                          wallets[req[p].sender_id].wallet_number)}
            /\ req' = [req EXCEPT ![p] = Done(req[p], 200, "Transfer completed")]
    /\ UNCHANGED <<users, wallets, api_keys, now, pre>>

\* GET /wallet/balance
GetBalance(p, x_api_key, credentials) ==
    /\ req[p].pc = "idle"
    /\ LET r == [req[p] EXCEPT !.kind = "balance", !.x_api_key = x_api_key,
                               !.credentials = credentials]
           principal == get_current_user_or_api_key(x_api_key, credentials)
           auth == Authorize(x_api_key, credentials, "read")
           found == get_by_user_id(auth.user_id)
       IN
       /\ api_keys' = update_last_used(principal)
       /\ req' = [req EXCEPT ![p] =
            IF ~auth.ok
            THEN Done(r, auth.status_code, auth.detail)
            ELSE IF found = {}
            THEN Done(r, 404, "Wallet not found")
            ELSE LET w == CHOOSE w \in found : TRUE IN
                 Done([r EXCEPT !.user_id = auth.user_id,
                                !.api_key_id = auth.api_key_id,
                                !.wallet_id = w,
                                !.balance = wallets[w].balance], 200, "")]
    /\ pre' = [pre EXCEPT ![p] = Snapshot]
    /\ UNCHANGED <<users, wallets, transactions, now>>

\* GET /wallet/balance, during which the commit of update_last_used may
\* fail (fault): get_api_key_auth calls it once the key has validated
\* (dependencies.py line 108) and nothing catches what it raises but an
\* HTTPException, so the request is answered 500.
GetBalanceStamp(p, x_api_key, credentials, fault) ==
    IF fault = "update_last_used" /\ x_api_key # "" /\ get_api_key_auth(x_api_key).ok
    THEN /\ req[p].pc = "idle"
         /\ req' = [req EXCEPT ![p] =
                Done([req[p] EXCEPT !.kind = "balance", !.x_api_key = x_api_key,
                                    !.credentials = credentials, !.fault = fault],
                     500, "Internal Server Error")]
         /\ pre' = [pre EXCEPT ![p] = Snapshot]
         /\ UNCHANGED <<users, wallets, transactions, api_keys, now>>
    ELSE GetBalance(p, x_api_key, credentials)

\* schemas/wallet.py DepositRequest: amount gt 0
DepositRequestValid(amount) == amount > 0

\* POST /wallet/deposit up to the wallet lookup of initialize_deposit:
\* authenticates, validates the body, checks the permission, loads the wallet.
DepositRoute(p, x_api_key, credentials, amount, fault) ==
    /\ req[p].pc = "idle"
    /\ LET r == [req[p] EXCEPT !.kind = "deposit", !.x_api_key = x_api_key,
                               !.credentials = credentials,
                               !.amount = amount, !.fault = fault]
           principal == get_current_user_or_api_key(x_api_key, credentials)
           auth == Authorize(x_api_key, credentials, "deposit")
           found == get_by_user_id(auth.user_id)
       IN
       /\ api_keys' = update_last_used(principal)
       /\ req' = [req EXCEPT ![p] =
            IF ~principal.ok
            THEN Done(r, principal.status_code, principal.detail)
            ELSE IF ~DepositRequestValid(amount)
            THEN Done(r, 422, "validation error")
            ELSE IF ~auth.ok
            THEN Done(r, auth.status_code, auth.detail)
            ELSE IF found = {}
            THEN Done(r, 404, "Wallet not found")
            ELSE [r EXCEPT !.pc = "create_deposit",
                           !.user_id = auth.user_id,
                           !.api_key_id = auth.api_key_id,
                           !.wallet_id = CHOOSE w \in found : TRUE,
                           !.reference = DepositReference(p)]]
    /\ pre' = [pre EXCEPT ![p] = Snapshot]
    /\ UNCHANGED <<users, wallets, transactions, now>>

\* initialize_deposit lines 44-52: the pending transaction row.  A failing
\* commit is not caught: the request is answered 500.
DepositCreateTransaction(p) ==
    /\ req[p].pc = "create_deposit"
    /\ IF req[p].fault = "create_deposit"
       THEN /\ req' = [req EXCEPT ![p] = Done(req[p], 500, "Internal Server Error")]
            /\ UNCHANGED transactions
       ELSE /\ transactions' = transactions \cup
                {Deposit(req[p].reference, req[p].wallet_id, req[p].amount)}
            /\ req' = [req EXCEPT ![p].pc = "initialize_transaction"]
    /\ UNCHANGED <<users, wallets, api_keys, now, pre>>

\* initialize_deposit lines 54-66: PaystackService.initialize_transaction,
\* which answers, refuses (400) or cannot be reached (503).
DepositInitializeTransaction(p) ==
    /\ req[p].pc = "initialize_transaction"
    /\ req' = [req EXCEPT ![p] =
          IF req[p].fault = "paystack_unavailable"
          THEN Done(req[p], 503, "Paystack service unavailable")
          ELSE IF req[p].fault = "paystack_refused"
          THEN Done(req[p], 400, "Failed to initialize Paystack transaction")
          ELSE Done(req[p], 200, "")]
    /\ UNCHANGED <<users, wallets, transactions, api_keys, now, pre>>

\* A variant of the status check that takes a pending deposit for paid: it
\* marks the transaction Success.
GetDepositStatus_Settling(p, x_api_key, credentials, reference) ==
    /\ req[p].pc = "idle"
    /\ req' = [req EXCEPT ![p] =
            Done([req[p] EXCEPT !.kind = "deposit_status", !.x_api_key = x_api_key,
                                !.credentials = credentials,
                                !.reference = reference,
                                !.tx_status = "success"], 200, "")]
    /\ transactions' = update_status(reference, "success")
    /\ pre' = [pre EXCEPT ![p] = Snapshot]
    /\ UNCHANGED <<users, wallets, api_keys, now>>

\* GET /wallet/deposit/{reference}/status
GetDepositStatus(p, x_api_key, credentials, reference) ==
    /\ req[p].pc = "idle"
    /\ LET r == [req[p] EXCEPT !.kind = "deposit_status", !.x_api_key = x_api_key,
                               !.credentials = credentials,
                               !.reference = reference]
           principal == get_current_user_or_api_key(x_api_key, credentials)
           auth == Authorize(x_api_key, credentials, "read")
           found == get_by_reference(reference)
       IN
       /\ api_keys' = update_last_used(principal)
       /\ req' = [req EXCEPT ![p] =
            IF ~auth.ok
            THEN Done(r, auth.status_code, auth.detail)
            ELSE LET s == [r EXCEPT !.user_id = auth.user_id,
                                    !.api_key_id = auth.api_key_id]
                 IN
                 IF found = {}
                 THEN Done(s, 404, "Transaction not found")
                 ELSE LET transaction == CHOOSE t \in found : TRUE IN
                      IF transaction.type # "deposit"
                      THEN Done(s, 400, "Not a deposit transaction")
                      ELSE Done([s EXCEPT !.tx_status = transaction.status,
                                          !.balance = transaction.amount], 200, "")]
    /\ pre' = [pre EXCEPT ![p] = Snapshot]
    /\ UNCHANGED <<users, wallets, transactions, now>>

\* GET /wallet/transactions
GetTransactions(p, x_api_key, credentials) ==
    /\ req[p].pc = "idle"
    /\ LET r == [req[p] EXCEPT !.kind = "transactions", !.x_api_key = x_api_key,
                               !.credentials = credentials]
           principal == get_current_user_or_api_key(x_api_key, credentials)
           auth == Authorize(x_api_key, credentials, "read")
           found == get_by_user_id(auth.user_id)
       IN
       /\ api_keys' = update_last_used(principal)
       /\ req' = [req EXCEPT ![p] =
            IF ~auth.ok
            THEN Done(r, auth.status_code, auth.detail)
            ELSE IF found = {}
            THEN Done(r, 404, "Wallet not found")
            ELSE LET w == CHOOSE w \in found : TRUE IN
                 Done([r EXCEPT !.user_id = auth.user_id,
                                !.api_key_id = auth.api_key_id,
                                !.wallet_id = w,
                                !.items = get_by_wallet_id(w)], 200, "")]
    /\ pre' = [pre EXCEPT ![p] = Snapshot]
    /\ UNCHANGED <<users, wallets, transactions, now>>

----------------------------------------------------------------------------
(* api/v1/routes/auth.py, services/auth_service.py *)

\* UserRepository.get_by_google_id: the ids of the rows found (at most one)
get_by_google_id(google_id) ==
    {u \in DOMAIN users : users[u].google_id = google_id}

\* models/user.py: google_id and email are unique
UserUnique(google_id, email) ==
    \A u \in DOMAIN users :
        users[u].google_id # google_id /\ users[u].email # email

\* models/wallet.py: wallet_number and user_id are unique
WalletUnique(user_id, wallet_number) ==
    \A w \in DOMAIN wallets :
        wallets[w].user_id # user_id /\ wallets[w].wallet_number # wallet_number

\* GET /auth/google/callback up to the lookup of get_or_create_user: a user
\* that exists is answered with a token at once.  wallet_number is what
\* generate_wallet_number() will return should a wallet be created.
GoogleCallback(p, google_id, email, wallet_number, fault) ==
    /\ req[p].pc = "idle"
    /\ LET r == [req[p] EXCEPT !.kind = "google_callback",
                               !.google_id = google_id, !.email = email,
                               !.wallet_number = wallet_number, !.fault = fault]
           found == get_by_google_id(google_id)
       IN
       req' = [req EXCEPT ![p] =
          IF found # {}
          THEN Done([r EXCEPT !.user_id = CHOOSE u \in found : TRUE], 200, "")
          ELSE [r EXCEPT !.pc = "create_user"]]
    /\ pre' = [pre EXCEPT ![p] = Snapshot]
    /\ UNCHANGED <<users, wallets, transactions, api_keys, now>>

\* get_or_create_user lines 49-54: user_repo.create(...), which commits.
\* A failing commit, or a row that breaks a unique constraint, raises and
\* is not caught: the request is answered 500.
CreateUser(p) ==
    /\ req[p].pc = "create_user"
    /\ IF req[p].fault = "create_user" \/ ~UserUnique(req[p].google_id, req[p].email)
       THEN /\ req' = [req EXCEPT ![p] = Done(req[p], 500, "Internal Server Error")]
            /\ UNCHANGED users
       ELSE LET id == Cardinality(DOMAIN users) + 1 IN
            /\ users' = [u \in DOMAIN users \cup {id} |->
                            IF u = id
                            THEN [id |-> id, is_active |-> TRUE,
                                  google_id |-> req[p].google_id,
                                  email |-> req[p].email]
                            ELSE users[u]]
            /\ req' = [req EXCEPT ![p].pc = "create_wallet", ![p].user_id = id]
    /\ UNCHANGED <<wallets, transactions, api_keys, now, pre>>

\* get_or_create_user lines 57-60: wallet_repo.create(user_id, wallet_number)
\* with balance 0.00, which commits; the user row is committed already.
CreateWallet(p) ==
    /\ req[p].pc = "create_wallet"
    /\ IF req[p].fault = "create_wallet"
            \/ ~WalletUnique(req[p].user_id, req[p].wallet_number)
       THEN /\ req' = [req EXCEPT ![p] = Done(req[p], 500, "Internal Server Error")]
            /\ UNCHANGED wallets
       ELSE LET id == Cardinality(DOMAIN wallets) + 1 IN
            /\ wallets' = [w \in DOMAIN wallets \cup {id} |->
                            IF w = id
                            THEN [id |-> id, user_id |-> req[p].user_id,
                                  wallet_number |-> req[p].wallet_number,
                                  balance |-> Decimal(0)]
                            ELSE wallets[w]]
            /\ req' = [req EXCEPT ![p] = Done([req[p] EXCEPT !.wallet_id = id], 200, "")]
    /\ UNCHANGED <<users, transactions, api_keys, now, pre>>

----------------------------------------------------------------------------
(* utils/expiry_parser.py, schemas/api_key.py *)

\* An expiry is a string, held as the sequence of its characters.
Digits == {"0", "1", "2", "3", "4", "5", "6", "7", "8", "9"}

DigitValue(c) ==
    CASE c = "0" -> 0 [] c = "1" -> 1 [] c = "2" -> 2 [] c = "3" -> 3
      [] c = "4" -> 4 [] c = "5" -> 5 [] c = "6" -> 6 [] c = "7" -> 7
      [] c = "8" -> 8 [] OTHER -> 9

\* int(expiry_str[:-1])
RECURSIVE int(_)
int(s) ==
    IF Len(s) = 0 THEN 0
    ELSE int(SubSeq(s, 1, Len(s) - 1)) * 10 + DigitValue(s[Len(s)])

\* str.upper(), on the unit letters
upper(c) ==
    CASE c = "h" -> "H" [] c = "d" -> "D" [] c = "m" -> "M" [] c = "y" -> "Y"
      [] OTHER -> c

\* The pattern ^[0-9]+[HDMY]$ of APIKeyCreateRequest and APIKeyRolloverRequest
ExpiryPattern(expiry) ==
    /\ Len(expiry) >= 2
    /\ \A i \in 1..(Len(expiry) - 1) : expiry[i] \in Digits
    /\ expiry[Len(expiry)] \in {"H", "D", "M", "Y"}

\* parse_expiry: the clock counts hours; M is 30 days, Y is 365 days.
parse_expiry(expiry_str) ==
    IF Len(expiry_str) < 2
    THEN [ok |-> FALSE, expires_at |-> 0]
    ELSE IF \E i \in 1..(Len(expiry_str) - 1) : expiry_str[i] \notin Digits
    THEN [ok |-> FALSE, expires_at |-> 0]
    ELSE LET number == int(SubSeq(expiry_str, 1, Len(expiry_str) - 1))
             unit == upper(expiry_str[Len(expiry_str)])
         IN  IF unit = "H" THEN [ok |-> TRUE, expires_at |-> now + number]
             ELSE IF unit = "D" THEN [ok |-> TRUE, expires_at |-> now + number * 24]
             ELSE IF unit = "M" THEN [ok |-> TRUE, expires_at |-> now + number * 30 * 24]
             ELSE IF unit = "Y" THEN [ok |-> TRUE, expires_at |-> now + number * 365 * 24]
             ELSE [ok |-> FALSE, expires_at |-> 0]

\* APIKeyCreateRequest: name of 1 to 255 characters, at least one permission,
\* expiry matching the pattern
APIKeyCreateRequestValid(name, permissions, expiry) ==
    /\ Len(name) >= 1 /\ Len(name) <= 255
    /\ permissions # {}
    /\ ExpiryPattern(expiry)

----------------------------------------------------------------------------
(* services/api_key_service.py, db/repositories/api_key_repository.py,     *)
(* api/v1/routes/api_keys.py                                               *)

MAX_ACTIVE_KEYS == 5

\* utils/permissions.py validate_permissions: TRUE when it does not raise
validate_permissions(permissions) ==
    permissions # {} /\ permissions \subseteq Permission

\* APIKeyRepository.get_by_id: the ids of the rows with that id (at most one)
get_by_id(key_id) == {k \in DOMAIN api_keys : api_keys[k].id = key_id}

\* A variant of count_active_keys that counts revoked keys as well.
count_active_keys_WithRevoked(user_id) ==
    Cardinality({k \in DOMAIN api_keys :
        /\ api_keys[k].user_id = user_id
        /\ api_keys[k].expires_at > now})

\* APIKeyRepository.count_active_keys
count_active_keys(user_id) ==
    Cardinality({k \in DOMAIN api_keys :
        /\ api_keys[k].user_id = user_id
        /\ api_keys[k].is_active
        /\ api_keys[k].expires_at > now})

\* APIKeyRepository.create: the new row.  The id is the next of the sequence,
\* the key is generate_api_key(), which is fresh; created_at is the
\* timestamp column of the model's TimestampMixin.
NewAPIKey(name, user_id, permissions, expires_at) ==
    LET id == Cardinality(DOMAIN api_keys) + 1 IN
    [id |-> id, key |-> "sk_" \o ToString(id), user_id |-> user_id,
     is_active |-> TRUE, permissions |-> permissions,
     expires_at |-> expires_at, last_used_at |-> -1,
     name |-> name, created_at |-> now]

\* A variant of revoke that flips the flag.
revoke_Toggle(key_id) == [api_keys EXCEPT ![key_id].is_active = ~@]

\* APIKeyRepository.revoke: api_key.is_active = False; commit
revoke(key_id) == [api_keys EXCEPT ![key_id].is_active = FALSE]

\* A variant of the ownership check that lets every caller through.
NotOwner_Unchecked(api_key, user_id) == FALSE

\* rollover_api_key line 76, revoke_api_key line 111: api_key.user_id != user_id
NotOwner(api_key, user_id) == api_key.user_id # user_id

\* A variant of the dependency of the key routes that also lets an API key
\* in, acting for its owner.
KeyRoutePrincipal_OrApiKey(x_api_key, credentials) ==
    LET auth == get_current_user_or_api_key(x_api_key, credentials) IN
    IF auth.ok /\ auth.api_key_id # 0
    THEN AuthOk(api_keys[auth.api_key_id].user_id, 0)
    ELSE auth

\* current_user: User = Depends(get_current_user_from_jwt), the dependency
\* of every key route: the X-API-Key header of the request is not read.
KeyRoutePrincipal(x_api_key, credentials) ==
    get_current_user_from_jwt(credentials)

\* create_api_key lines 29-43: validate_permissions, parse_expiry and the
\* limit on active keys; r is the request, acting for user_id.
create_api_key(r, user_id, name, permissions, expiry) ==
    IF ~validate_permissions(permissions)
    THEN Done(r, 400, "Invalid permissions")
    ELSE IF ~parse_expiry(expiry).ok
    THEN Done(r, 400, "Invalid expiry format")
    ELSE IF count_active_keys(user_id) >= MAX_ACTIVE_KEYS
    THEN Done(r, 400, "Maximum 5 active API keys allowed per user")
    ELSE [r EXCEPT !.pc = "create_key", !.user_id = user_id,
                   !.name = name, !.permissions = permissions,
                   !.expires_at = parse_expiry(expiry).expires_at]

\* POST /keys/create up to the limit check of create_api_key (line 43)
CreateApiKey(p, x_api_key, credentials, name, permissions, expiry) ==
    /\ req[p].pc = "idle"
    /\ LET r == [req[p] EXCEPT !.kind = "create_key", !.x_api_key = x_api_key,
                               !.credentials = credentials,
                               !.name = name, !.permissions = permissions,
                               !.expiry = expiry]
           auth == KeyRoutePrincipal(x_api_key, credentials)
       IN
       req' = [req EXCEPT ![p] =
            IF ~auth.ok
            THEN Done(r, auth.status_code, auth.detail)
            ELSE IF ~APIKeyCreateRequestValid(name, permissions, expiry)
            THEN Done(r, 422, "validation error")
            ELSE create_api_key(r, auth.user_id, name, permissions, expiry)]
    /\ pre' = [pre EXCEPT ![p] = Snapshot]
    /\ UNCHANGED <<users, wallets, transactions, api_keys, now>>

\* A variant of the insert that retires the key a rollover replaces.
InsertApiKey_Retiring(p) ==
    /\ req[p].pc = "create_key"
    /\ LET api_key == NewAPIKey(req[p].name, req[p].user_id,
                                req[p].permissions, req[p].expires_at)
       IN
       /\ api_keys' = [k \in DOMAIN api_keys \cup {api_key.id} |->
                        IF k = api_key.id THEN api_key
                        ELSE IF k = req[p].key_id
                        THEN [api_keys[k] EXCEPT !.is_active = FALSE]
                        ELSE api_keys[k]]
       /\ req' = [req EXCEPT ![p] =
                Done([req[p] EXCEPT !.new_key_id = api_key.id,
                                    !.api_key = api_key.key], 201, "")]
    /\ UNCHANGED <<users, wallets, transactions, now, pre>>

\* create_api_key lines 45-57 and the route's response: generate_api_key,
\* APIKeyRepository.create, and the key shown in the response.
InsertApiKey(p) ==
    /\ req[p].pc = "create_key"
    /\ LET api_key == NewAPIKey(req[p].name, req[p].user_id,
                                req[p].permissions, req[p].expires_at)
       IN
       /\ api_keys' = [k \in DOMAIN api_keys \cup {api_key.id} |->
                        IF k = api_key.id THEN api_key ELSE api_keys[k]]
       /\ req' = [req EXCEPT ![p] =
                Done([req[p] EXCEPT !.new_key_id = api_key.id,
                                    !.api_key = api_key.key], 201, "")]
    /\ UNCHANGED <<users, wallets, transactions, now, pre>>

\* POST /keys/rollover up to the limit check of create_api_key
RolloverApiKey(p, x_api_key, credentials, expired_key_id, expiry) ==
    /\ req[p].pc = "idle"
    /\ LET r == [req[p] EXCEPT !.kind = "rollover_key", !.x_api_key = x_api_key,
                               !.credentials = credentials,
                               !.key_id = expired_key_id, !.expiry = expiry]
           auth == KeyRoutePrincipal(x_api_key, credentials)
           found == get_by_id(expired_key_id)
       IN
       req' = [req EXCEPT ![p] =
            IF ~auth.ok
            THEN Done(r, auth.status_code, auth.detail)
            ELSE IF ~ExpiryPattern(expiry)
            THEN Done(r, 422, "validation error")
            ELSE IF found = {}
            THEN Done(r, 404, "API key not found")
            ELSE LET old_key == api_keys[CHOOSE k \in found : TRUE] IN
                 IF NotOwner(old_key, auth.user_id)
                 THEN Done(r, 403, "Not authorized to rollover this API key")
                 ELSE IF ~is_expired(old_key)
                 THEN Done(r, 400, "Cannot rollover a key that has not expired")
                 ELSE create_api_key(r, auth.user_id,
                                     old_key.name \o " (rolled over)",
                                     old_key.permissions, expiry)]
    /\ pre' = [pre EXCEPT ![p] = Snapshot]
    /\ UNCHANGED <<users, wallets, transactions, api_keys, now>>

\* DELETE /keys/{key_id}
RevokeApiKey(p, x_api_key, credentials, key_id) ==
    /\ req[p].pc = "idle"
    /\ LET r == [req[p] EXCEPT !.kind = "revoke_key", !.x_api_key = x_api_key,
                               !.credentials = credentials,
                               !.key_id = key_id]
           auth == KeyRoutePrincipal(x_api_key, credentials)
           found == get_by_id(key_id)
       IN
       IF ~auth.ok
       THEN /\ req' = [req EXCEPT ![p] = Done(r, auth.status_code, auth.detail)]
            /\ UNCHANGED api_keys
       ELSE IF found = {}
       THEN /\ req' = [req EXCEPT ![p] = Done(r, 404, "API key not found")]
            /\ UNCHANGED api_keys
       ELSE IF NotOwner(api_keys[CHOOSE k \in found : TRUE], auth.user_id)
       THEN /\ req' = [req EXCEPT ![p] =
                    Done(r, 403, "Not authorized to revoke this API key")]
            /\ UNCHANGED api_keys
       ELSE /\ api_keys' = revoke(CHOOSE k \in found : TRUE)
            /\ req' = [req EXCEPT ![p] =
                    Done([r EXCEPT !.user_id = auth.user_id], 200,
                         "API key revoked successfully")]
    /\ pre' = [pre EXCEPT ![p] = Snapshot]
    /\ UNCHANGED <<users, wallets, transactions, now>>

\* schemas/api_key.py APIKeyListItem: the row without its key
APIKeyListItem(api_key) ==
    [id |-> api_key.id, name |-> api_key.name,
     permissions |-> api_key.permissions, expires_at |-> api_key.expires_at,
     is_active |-> api_key.is_active, last_used_at |-> api_key.last_used_at,
     created_at |-> api_key.created_at]

\* ORDER BY created_at DESC.  The order of rows with equal created_at is the
\* database's choice: tie is the one it makes (by id, up or down).
OrderedBefore(a, b, tie) ==
    \/ a.created_at > b.created_at
    \/ /\ a.created_at = b.created_at
       /\ IF tie = "asc" THEN a.id < b.id ELSE a.id > b.id

RECURSIVE order_by(_, _)
order_by(rows, tie) ==
    IF rows = {} THEN <<>>
    ELSE LET first == CHOOSE a \in rows :
                        \A b \in rows \ {a} : OrderedBefore(a, b, tie)
         IN  <<first>> \o order_by(rows \ {first}, tie)

\* A variant of get_all_by_user that does not filter by owner.
get_all_by_user_Everyone(user_id, tie) ==
    order_by({api_keys[k] : k \in DOMAIN api_keys}, tie)

\* APIKeyRepository.get_all_by_user
get_all_by_user(user_id, tie) ==
    order_by({api_keys[k] : k \in {j \in DOMAIN api_keys :
                                    api_keys[j].user_id = user_id}}, tie)

\* GET /keys
ListApiKeys(p, x_api_key, credentials, tie) ==
    /\ req[p].pc = "idle"
    /\ LET r == [req[p] EXCEPT !.kind = "list_keys", !.x_api_key = x_api_key,
                               !.credentials = credentials]
           auth == KeyRoutePrincipal(x_api_key, credentials)
       IN
       req' = [req EXCEPT ![p] =
            IF ~auth.ok
            THEN Done(r, auth.status_code, auth.detail)
            ELSE LET rows == get_all_by_user(auth.user_id, tie) IN
                 Done([r EXCEPT !.user_id = auth.user_id,
                                !.listing = [i \in 1..Len(rows) |->
                                                APIKeyListItem(rows[i])]],
                      200, "")]
    /\ pre' = [pre EXCEPT ![p] = Snapshot]
    /\ UNCHANGED <<users, wallets, transactions, api_keys, now>>

----------------------------------------------------------------------------
(* Specifications *)

Signed(body) == Hmac(PAYSTACK_WEBHOOK_SECRET, body)

\* Every step of a request after its first.
Continue(p) ==
    \/ WebhookUpdateStatus(p)
    \/ WebhookGetWallet(p)
    \/ WebhookAddToBalance(p)
    \/ TransferGetRecipient(p)
    \/ TransferDeduct(p)
    \/ TransferRefreshRecipient(p)
    \/ TransferAdd(p)
    \/ TransferCreateSenderTransaction(p)
    \/ TransferCreateRecipientTransaction(p)

\* Processes are interchangeable: they take up requests in the order of their ids.
InOrder(p) == IF p = 1 THEN TRUE ELSE req[p - 1].pc # "idle"

\* No other request is being handled.
Alone(p) == \A q \in AllProcs \ {p} : req[q].pc \in {"idle", "done"}

\* The request of p is the last one that was made.
Latest(p) == \A q \in AllProcs : q > p => req[q].pc = "idle"

(* Spec: concurrent requests, their statements interleaved.  Signed        *)
(* charge.success deliveries for the deposit DEP_A, transfers between the  *)
(* wallets of users 1 and 2 (JWT), and balance reads.                      *)

ConcBodies ==
    {WebhookBody("charge.success", "DEP_A", 100, status) :
        status \in {"success", "failed"}}

ConcWebhook(p) ==
    /\ InOrder(p)
    /\ \E body \in ConcBodies : PaystackWebhook(p, body, Signed(body), "none")

ConcTransfer(p) ==
    /\ InOrder(p)
    /\ \E u \in {1, 2}, w \in {1, 2}, amount \in {100, 200} :
            TransferRoute(p, "", Token(u), WalletNumbers[w], amount, "none")

ConcBalance(p) ==
    /\ InOrder(p)
    /\ \E u \in {1, 2} : GetBalance(p, "", Token(u))

Next ==
    \E p \in Procs :
        \/ ConcWebhook(p)
        \/ ConcTransfer(p)
        \/ ConcBalance(p)
        \/ Continue(p)

Spec == Init /\ [][Next]_vars

(* SpecWebhook: webhook deliveries made one after another: each is handled *)
(* to its response before the next arrives.  The deliveries are            *)
(* charge.success events for the two pending deposits, with the amount and *)
(* the outcome the processor reports, and beside them an unknown and a     *)
(* missing reference, a zero amount, another event, a body that is not     *)
(* JSON, bad signatures, and deliveries during which a commit fails.       *)

ChargeSuccess(reference, amount, status) ==
    WebhookBody("charge.success", reference, amount, status)

SeqDeliveries ==
    {<<ChargeSuccess(reference, amount, status),
       Signed(ChargeSuccess(reference, amount, status)), "none">> :
        reference \in {"DEP_A", "DEP_B"}, amount \in {100, 250},
        status \in {"success", "failed"}}
    \cup
    {<<body, Signed(body), "none">> :
        body \in {ChargeSuccess("DEP_X", 100, "success"),
                  ChargeSuccess(NULL, 100, "success"),
                  ChargeSuccess("DEP_A", 0, "success"),
                  WebhookBody("transfer.success", "DEP_A", 100, "success")}}
    \cup
    {<<Unparseable, Signed(Unparseable), "none">>,
     <<Unparseable, Hmac("guess", Unparseable), "none">>,
     <<ChargeSuccess("DEP_A", 250, "success"),
       Signed(ChargeSuccess("DEP_A", 100, "success")), "none">>,
     <<ChargeSuccess("DEP_A", 100, "success"),
       Hmac("guess", ChargeSuccess("DEP_A", 100, "success")), "none">>}
    \cup
    {<<ChargeSuccess(reference, 100, "success"),
       Signed(ChargeSuccess(reference, 100, "success")), fault>> :
        reference \in {"DEP_A", "DEP_B"},
        fault \in {"update_status", "add_to_balance"}}

SeqWebhook(p) ==
    /\ InOrder(p)
    /\ \E d \in SeqDeliveries : PaystackWebhook(p, d[1], d[2], d[3])

NextWebhook ==
    \E p \in SeqProcs :
        \/ Alone(p) /\ SeqWebhook(p)
        \/ Alone(p) /\ WebhookUpdateStatus(p)
        \/ Alone(p) /\ WebhookGetWallet(p)
        \/ Alone(p) /\ WebhookAddToBalance(p)

SpecWebhook == Init /\ [][NextWebhook]_vars

(* SpecTransfer: transfers made one after another by users 1 and 2 (JWT),  *)
(* to each wallet number and to one that no wallet has, of amounts from    *)
(* -1.00 to 3.00, and transfers during which a commit fails.               *)

TransferFaults ==
    {"deduct_from_balance", "add_to_balance", "create_sender_transaction",
     "create_recipient_transaction"}

SeqTransfers ==
    {<<u, wallet_number, amount, "none">> :
        u \in {1, 2},
        wallet_number \in {WalletNumbers[w] : w \in UserIds} \cup {UnknownWalletNumber},
        amount \in {-100, 0, 100, 200, 300}}
    \cup
    {<<u, WalletNumbers[3], 100, fault>> : u \in {1, 2}, fault \in TransferFaults}

SeqTransfer(p) ==
    /\ InOrder(p)
    /\ \E t \in SeqTransfers : TransferRoute(p, "", Token(t[1]), t[2], t[3], t[4])

NextTransfer ==
    \E p \in TransferProcs :
        \/ Alone(p) /\ SeqTransfer(p)
        \/ Alone(p) /\ TransferGetRecipient(p)
        \/ Alone(p) /\ TransferDeduct(p)
        \/ Alone(p) /\ TransferRefreshRecipient(p)
        \/ Alone(p) /\ TransferAdd(p)
        \/ Alone(p) /\ TransferCreateSenderTransaction(p)
        \/ Alone(p) /\ TransferCreateRecipientTransaction(p)

SpecTransfer == Init /\ [][NextTransfer]_vars

(* SpecAuth: wallet requests (balance reads, transfers of 1.00 to wallet   *)
(* 3, deposits of 1.00, the status of the deposit DEP_A, the transaction   *)
(* history) made one after another while the clock advances, with every    *)
(* combination of X-API-Key header and bearer token: no header, the four   *)
(* keys of the table and an unknown key; no token, a token that does not   *)
(* verify, and tokens for the three users and for a user that has no row.  *)

Headers == {"", "sk_x"} \cup {InitAPIKeys[k].key : k \in DOMAIN InitAPIKeys}

Tokens == {NoToken, BadToken} \cup {Token(u) : u \in UserIds \cup {GhostUser}}

AuthBalance(p) ==
    /\ InOrder(p)
    /\ \E x_api_key \in Headers, credentials \in Tokens :
            GetBalance(p, x_api_key, credentials)

AuthTransfer(p) ==
    /\ InOrder(p)
    /\ \E x_api_key \in Headers, credentials \in Tokens :
            TransferRoute(p, x_api_key, credentials, WalletNumbers[3], 100, "none")

AuthDeposit(p) ==
    /\ InOrder(p)
    /\ \E x_api_key \in Headers, credentials \in Tokens :
            DepositRoute(p, x_api_key, credentials, 100, "none")

AuthDepositStatus(p) ==
    /\ InOrder(p)
    /\ \E x_api_key \in Headers, credentials \in Tokens :
            GetDepositStatus(p, x_api_key, credentials, "DEP_A")

AuthTransactions(p) ==
    /\ InOrder(p)
    /\ \E x_api_key \in Headers, credentials \in Tokens :
            GetTransactions(p, x_api_key, credentials)

\* Time passes between requests.
Tick ==
    /\ now < MaxNow
    /\ \A q \in AllProcs : req[q].pc \in {"idle", "done"}
    /\ now' = now + 1
    /\ UNCHANGED <<users, wallets, transactions, api_keys, req, pre>>

NextAuth ==
    \/ Tick
    \/ \E p \in AuthProcs :
        \/ Alone(p) /\ AuthBalance(p)
        \/ Alone(p) /\ AuthTransfer(p)
        \/ Alone(p) /\ AuthDeposit(p)
        \/ Alone(p) /\ AuthDepositStatus(p)
        \/ Alone(p) /\ AuthTransactions(p)
        \/ Alone(p) /\ DepositCreateTransaction(p)
        \/ Alone(p) /\ DepositInitializeTransaction(p)
        \/ Alone(p) /\ TransferGetRecipient(p)
        \/ Alone(p) /\ TransferDeduct(p)
        \/ Alone(p) /\ TransferRefreshRecipient(p)
        \/ Alone(p) /\ TransferAdd(p)
        \/ Alone(p) /\ TransferCreateSenderTransaction(p)
        \/ Alone(p) /\ TransferCreateRecipientTransaction(p)

SpecAuth == Init /\ [][NextAuth]_vars

(* SpecKeys: API key requests made one after another while the clock       *)
(* advances.  User 1 starts with seven keys, five of them active and not   *)
(* expired, two of which expire at hour 2 (one more is revoked, and one    *)
(* expired an hour ago and was revoked since); the requests create keys,   *)
(* roll over and revoke user 1's keys, a key of user 2 and a key     *)
(* that does not exist, list the keys of every user (user 3 is inactive)   *)
(* and of a user that has no row, and read the balance with a key of user  *)
(* 1; some key requests present an API key in place of a token.            *)

\* Keys 6 and 7 were created at the same instant.
KeyTable6CreatedAt == APIKey(6, 1, {"read"}, 9, TRUE).created_at

KeyTable == [k \in 1..9 |->
    IF k \in DOMAIN InitAPIKeys THEN InitAPIKeys[k]
    ELSE IF k = 8 THEN APIKey(8, 1, {"read", "deposit"}, -1, FALSE)
    ELSE IF k = 9 THEN APIKey(9, 1, {"read"}, 2, TRUE)
    ELSE IF k = 7 THEN [APIKey(7, 1, {"read"}, 9, TRUE) EXCEPT
                            !.created_at = KeyTable6CreatedAt]
    ELSE APIKey(k, 1, {"read"}, 9, TRUE)]

InitKeys ==
    /\ users = InitUsers
    /\ wallets = InitWallets
    /\ transactions = InitTransactions
    /\ api_keys = KeyTable
    /\ now = 0
    /\ req = [p \in AllProcs |-> IdleReq]
    /\ pre = [p \in AllProcs |->
                [wallets |-> InitWallets, transactions |-> InitTransactions,
                 api_keys |-> KeyTable, now |-> 0]]

\* A key id that no row has.
UnknownKeyId == Cardinality(DOMAIN KeyTable) * 2

KeyIds == {1, 4, 8, UnknownKeyId}

\* Key 3 of user 1 was revoked before it expires.
RevokedKeyId == CHOOSE k \in DOMAIN InitAPIKeys : ~InitAPIKeys[k].is_active

\* A request that carries a key that authenticates wallet requests (key 2
\* of user 2, which holds read alone) and no token.
ByApiKey == {<<InitAPIKeys[2].key, NoToken>>}

NewKeys ==
    {<<Token(1), "ci", {"read"}, <<"1", "H">> >>,
     <<Token(1), "ops", {"read", "transfer"}, <<"0", "H">> >>,
     <<Token(1), "ops", {"read", "admin"}, <<"1", "D">> >>}

KeysCreate(p) ==
    /\ InOrder(p)
    /\ \E c \in NewKeys : CreateApiKey(p, "", c[1], c[2], c[3], c[4])

KeysRollover(p) ==
    /\ InOrder(p)
    /\ \E key_id \in KeyIds \cup {RevokedKeyId} :
            RolloverApiKey(p, "", Token(1), key_id, <<"2", "H">>)

KeysRevoke(p) ==
    /\ InOrder(p)
    /\ \E key_id \in KeyIds : RevokeApiKey(p, "", Token(1), key_id)

KeysList(p) ==
    /\ InOrder(p)
    /\ \E u \in UserIds \cup {GhostUser}, tie \in {"asc", "desc"} :
            ListApiKeys(p, "", Token(u), tie)

\* Key requests that present an API key in place of a bearer token.
KeysByApiKey(p) ==
    /\ InOrder(p)
    /\ \E c \in ByApiKey :
        \/ CreateApiKey(p, c[1], c[2], "ci", {"read", "transfer"}, <<"1", "H">>)
        \/ RolloverApiKey(p, c[1], c[2], 8, <<"2", "H">>)
        \/ RevokeApiKey(p, c[1], c[2], 1)
        \/ ListApiKeys(p, c[1], c[2], "asc")

\* A balance read that authenticates with a key of user 1 alone: key 1,
\* which the requests may have revoked, or key 3, revoked from the start.
KeysBalance(p) ==
    /\ InOrder(p)
    /\ \E k \in {1, 3} : GetBalance(p, KeyTable[k].key, NoToken)

NextKeys ==
    \/ Tick
    \/ \E p \in KeyProcs :
        \/ Alone(p) /\ KeysCreate(p)
        \/ Alone(p) /\ KeysRollover(p)
        \/ Alone(p) /\ KeysRevoke(p)
        \/ Alone(p) /\ KeysList(p)
        \/ Alone(p) /\ KeysBalance(p)
        \/ Alone(p) /\ KeysByApiKey(p)
        \/ Alone(p) /\ InsertApiKey(p)

SpecKeys == InitKeys /\ [][NextKeys]_vars

(* SpecStamp: balance reads made one after another while the clock        *)
(* advances, with every combination of X-API-Key header and bearer token,  *)
(* during which the commit that stamps the key's last use may fail.        *)

StampFaults == {"none", "update_last_used"}

StampBalance(p) ==
    /\ InOrder(p)
    /\ \E x_api_key \in Headers, credentials \in Tokens, fault \in StampFaults :
            GetBalanceStamp(p, x_api_key, credentials, fault)

NextStamp ==
    \/ Tick
    \/ \E p \in AuthProcs : Alone(p) /\ StampBalance(p)

SpecStamp == Init /\ [][NextStamp]_vars

(* SpecTransferLive: transfers of 1.00 between the wallets of users 1 and  *)
(* 2, in either direction, handled concurrently, their statements          *)
(* interleaved.  Each request runs on a worker of its own that is          *)
(* scheduled again and again: a statement that can run does run.           *)

LiveTransfer(p) ==
    /\ InOrder(p)
    /\ \E u \in {1, 2}, w \in {1, 2} :
            /\ u # w
            /\ TransferRoute(p, "", Token(u), WalletNumbers[w], Decimal(1), "none")

\* The statements of transfer_funds after the balance check.
TransferStep(p) ==
    \/ TransferGetRecipient(p)
    \/ TransferDeduct(p)
    \/ TransferRefreshRecipient(p)
    \/ TransferAdd(p)
    \/ TransferCreateSenderTransaction(p)
    \/ TransferCreateRecipientTransaction(p)

NextTransferLive ==
    \E p \in Procs :
        \/ LiveTransfer(p)
        \/ TransferGetRecipient(p)
        \/ TransferDeduct(p)
        \/ TransferRefreshRecipient(p)
        \/ TransferAdd(p)
        \/ TransferCreateSenderTransaction(p)
        \/ TransferCreateRecipientTransaction(p)

SpecTransferLive ==
    /\ Init
    /\ [][NextTransferLive]_vars
    /\ \A p \in Procs : WF_vars(TransferStep(p))

(* SpecKeysConc: create, rollover and revoke requests of user 1 handled    *)
(* concurrently, their statements interleaved.                             *)

ConcCreate(p) ==
    /\ InOrder(p)
    /\ \E c \in NewKeys : CreateApiKey(p, "", c[1], c[2], c[3], c[4])

ConcRollover(p) ==
    /\ InOrder(p)
    /\ \E key_id \in KeyIds : RolloverApiKey(p, "", Token(1), key_id, <<"2", "H">>)

ConcRevoke(p) ==
    /\ InOrder(p)
    /\ \E key_id \in KeyIds : RevokeApiKey(p, "", Token(1), key_id)

NextKeysConc ==
    \E p \in Procs :
        \/ ConcCreate(p)
        \/ ConcRollover(p)
        \/ ConcRevoke(p)
        \/ InsertApiKey(p)

\* User 1 starts with one key less: four that are active and not expired.
KeyTableConc == [k \in 1..(Cardinality(DOMAIN KeyTable) - 1) |-> KeyTable[k]]

InitKeysConc ==
    /\ users = InitUsers
    /\ wallets = InitWallets
    /\ transactions = InitTransactions
    /\ api_keys = KeyTableConc
    /\ now = 0
    /\ req = [p \in AllProcs |-> IdleReq]
    /\ pre = [p \in AllProcs |->
                [wallets |-> InitWallets, transactions |-> InitTransactions,
                 api_keys |-> KeyTableConc, now |-> 0]]

SpecKeysConc == InitKeysConc /\ [][NextKeysConc]_vars

(* SpecDeposit: deposits, status checks and webhook deliveries handled    *)
(* concurrently, their statements interleaved.  Users 1 and 2 (JWT) and a  *)
(* key without the deposit permission initialize deposits of 1.00, during  *)
(* which the insert may fail and Paystack may refuse or be out of reach;   *)
(* user 1 asks for the status of DEP_A, of the first request's deposit and *)
(* of an unknown reference; Paystack delivers charge.success for DEP_A and *)
(* for the first request's deposit.                                        *)

DepositFaults == {"none", "create_deposit", "paystack_unavailable", "paystack_refused"}

DepositCallers == {<<"", Token(1)>>, <<"", Token(2)>>, <<InitAPIKeys[2].key, NoToken>>}

DepDeposit(p) ==
    /\ InOrder(p)
    /\ \E c \in DepositCallers, fault \in DepositFaults :
            DepositRoute(p, c[1], c[2], 100, fault)

DepStatus(p) ==
    /\ InOrder(p)
    /\ \E reference \in {"DEP_A", "DEP_X", DepositReference(1)} :
            GetDepositStatus(p, "", Token(1), reference)

DepWebhook(p) ==
    /\ InOrder(p)
    /\ \E body \in ConcBodies \cup {ChargeSuccess(DepositReference(1), 100, "success")} :
            PaystackWebhook(p, body, Signed(body), "none")

NextDeposit ==
    \E p \in Procs :
        \/ DepDeposit(p)
        \/ DepositCreateTransaction(p)
        \/ DepositInitializeTransaction(p)
        \/ DepStatus(p)
        \/ DepWebhook(p)
        \/ WebhookUpdateStatus(p)
        \/ WebhookGetWallet(p)
        \/ WebhookAddToBalance(p)

SpecDeposit == Init /\ [][NextDeposit]_vars

(* SpecOAuth: Google sign-ins made one after another: user 1 again, a     *)
(* new identity, and a new Google account with the email of user 1.  The   *)
(* wallet number drawn for a new wallet is a fresh one or, by chance, one  *)
(* that a wallet has; the commit of either insert may fail.                *)

Identities ==
    {<<GoogleId(1), Email(1)>>,
     <<GoogleId(GhostUser), Email(GhostUser)>>,
     <<GoogleId(GhostUser + 1), Email(1)>>}

FreshWalletNumber == "4000000000004"

LoginFaults == {"none", "create_user", "create_wallet"}

SeqLogin(p) ==
    /\ InOrder(p)
    /\ \E i \in Identities, wallet_number \in {FreshWalletNumber, WalletNumbers[1]},
          fault \in LoginFaults :
            GoogleCallback(p, i[1], i[2], wallet_number, fault)

NextOAuth ==
    \E p \in LoginProcs :
        \/ Alone(p) /\ SeqLogin(p)
        \/ Alone(p) /\ CreateUser(p)
        \/ Alone(p) /\ CreateWallet(p)

SpecOAuth == Init /\ [][NextOAuth]_vars

----------------------------------------------------------------------------
(* Properties *)

Answered(p) == req[p].pc = "done"

RECURSIVE Sum(_, _)
Sum(f, S) ==
    IF S = {} THEN 0
    ELSE LET x == CHOOSE x \in S : TRUE IN f[x] + Sum(f, S \ {x})

TheTransaction(reference) == CHOOSE t \in transactions : t.reference = reference

\* The answered deliveries of a verified charge.success with outcome success
\* for the deposit with external reference R.
SuccessDeliveries(R) ==
    {p \in SeqProcs :
        /\ req[p].kind = "webhook" /\ Answered(p)
        /\ req[p].signature = Signed(req[p].body)
        /\ req[p].body = ChargeSuccess(R, req[p].body.amount, "success")
        /\ req[p].body.amount > 0}

\* No delivery for R met a failing commit.
NoCommitFailed(R) ==
    \A p \in SeqProcs :
        req[p].kind = "webhook" /\ req[p].body.reference = R => req[p].fault = "none"

First(S) == CHOOSE p \in S : \A q \in S : p <= q

\* C1: a pending deposit for which one or more verified charge.success
\* deliveries with outcome success were handled one after another (no commit
\* failing) has been credited exactly once: the first of them credited the
\* processor's amount and made the transaction Success, every later one
\* credited nothing and left wallets and transactions as they were, so the
\* balance after N deliveries is the balance after the first.
C1_SequentialDeliveriesCreditOnce ==
    \A R \in {"DEP_A", "DEP_B"} :
        LET ds == SuccessDeliveries(R)
            w == TheTransaction(R).wallet_id
        IN  ds # {} /\ NoCommitFailed(R) =>
              /\ TheTransaction(R).status = "success"
              /\ req[First(ds)].credited = req[First(ds)].body.amount
              /\ wallets[w].balance = OpeningBalance[w] + req[First(ds)].body.amount
              /\ \A p \in ds \ {First(ds)} :
                    /\ req[p].credited = 0
                    /\ req[p].status_code = 200
                    /\ Latest(p) => /\ wallets = pre[p].wallets
                                    /\ transactions = pre[p].transactions

\* Three deliveries for one deposit have been answered.
C1_Witness ==
    \E R \in {"DEP_A", "DEP_B"} :
        /\ Cardinality(SuccessDeliveries(R)) >= 3
        /\ NoCommitFailed(R)

\* C2 (as claimed): however the deliveries for DEP_A interleave, the wallet
\* is credited by at most one delivery's amount (1.00).
C2_ConcurrentDeliveriesCreditOnce ==
    (\A p \in Procs : req[p].kind \in {"idle", "webhook"}) =>
        wallets[1].balance <= OpeningBalance[1] + 100

\* C3: no wallet's balance is ever negative.
C3_BalanceNeverNegative ==
    \A w \in DOMAIN wallets : wallets[w].balance >= 0

\* Two transfers in flight have both debited the same wallet, for more in
\* total than it held.
C3_Witness ==
    \E p, q \in Procs :
        /\ p # q
        /\ req[p].kind = "transfer" /\ req[q].kind = "transfer"
        /\ ~Answered(p) /\ ~Answered(q)
        /\ req[p].sender_id = req[q].sender_id
        /\ req[p].debited > 0 /\ req[q].debited > 0
        /\ req[p].debited + req[q].debited > OpeningBalance[req[p].sender_id]

\* C4: a transfer of A from X to Y that succeeded without interference
\* leaves X with A less, Y with A more, every other wallet as it was, and
\* adds exactly two Success Transfer rows of amount A: one on X naming Y's
\* number, one on Y naming X's number.
C4_TransferMovesAmount ==
    \A p \in TransferProcs :
        req[p].kind = "transfer" /\ Answered(p) /\ req[p].status_code = 200 /\ Latest(p) =>
            \E X, Y \in DOMAIN wallets :
                LET A == req[p].amount
                    new == transactions \ pre[p].transactions
                IN
                /\ X # Y
                /\ pre[p].wallets[X].user_id = req[p].credentials.sub
                /\ pre[p].wallets[Y].wallet_number = req[p].wallet_number
                /\ wallets = [pre[p].wallets EXCEPT ![X].balance = @ - A,
                                                    ![Y].balance = @ + A]
                /\ pre[p].transactions \subseteq transactions
                /\ Cardinality(new) = 2
                /\ \E out, in \in new :
                    /\ out.wallet_id = X /\ in.wallet_id = Y
                    /\ out.recipient_wallet_number = wallets[Y].wallet_number
                    /\ in.recipient_wallet_number = wallets[X].wallet_number
                    /\ \A t \in {out, in} :
                        t.type = "transfer" /\ t.status = "success" /\ t.amount = A

\* A transfer has just succeeded.
C4_Witness ==
    \E p \in TransferProcs :
        /\ req[p].kind = "transfer" /\ Answered(p)
        /\ req[p].status_code = 200 /\ Latest(p)

Quiescent == \A p \in Procs : req[p].pc \in {"idle", "done"}

\* What the requests committed to wallet w: credits less debits.
NetApplied(w) ==
    Sum([p \in Procs |->
            (IF \/ req[p].kind = "transfer" /\ req[p].recipient_id = w
                \/ req[p].kind = "webhook" /\ req[p].wallet_id = w
             THEN req[p].credited ELSE 0)
          - (IF req[p].kind = "transfer" /\ req[p].sender_id = w
             THEN req[p].debited ELSE 0)], Procs)

\* C5 (as claimed): once the concurrent requests have all completed, each
\* wallet holds its opening balance plus every credit applied to it less
\* every debit applied to it.
C5_NoLostUpdate ==
    Quiescent =>
        \A w \in DOMAIN wallets : wallets[w].balance = OpeningBalance[w] + NetApplied(w)

\* C6 (as claimed): no balance read sees a transfer partially applied: the
\* sender debited and the recipient not yet credited.
C6_NoPartialRead ==
    \A q, p \in Procs :
        ~ /\ req[q].kind = "balance" /\ req[q].status_code = 200
          /\ req[p].kind = "transfer" /\ ~Answered(p)
          /\ pre[q].wallets = wallets
          /\ req[q].wallet_id = req[p].sender_id
          /\ req[q].balance = pre[p].wallets[req[p].sender_id].balance - req[p].amount
          /\ wallets[req[p].recipient_id].balance
                = pre[p].wallets[req[p].recipient_id].balance
          /\ req[p].debited > 0 /\ req[p].credited = 0

\* C7 (as claimed): a transfer that failed with an error after its first
\* mutation leaves balances and transactions as they were before it.
C7_FailedTransferRollsBack ==
    \A p \in TransferProcs :
        /\ req[p].kind = "transfer" /\ Answered(p)
        /\ req[p].status_code = 500 /\ Latest(p)
        => /\ wallets = pre[p].wallets
           /\ transactions = pre[p].transactions

\* What transfer_funds is claimed to answer, from the ledger as the request
\* found it.
ExpectedOutcome(p) ==
    LET A == req[p].amount
        X == CHOOSE w \in DOMAIN pre[p].wallets :
                pre[p].wallets[w].user_id = req[p].credentials.sub
        found == {w \in DOMAIN pre[p].wallets :
                    pre[p].wallets[w].wallet_number = req[p].wallet_number}
    IN  IF A <= 0 THEN "invalid amount"
        ELSE IF pre[p].wallets[X].balance < A THEN "insufficient balance"
        ELSE IF found = {} THEN "recipient not found"
        ELSE IF X \in found THEN "self transfer"
        ELSE "success"

Outcome(p) ==
    LET r == req[p] IN
    IF r.status_code = 200 THEN "success"
    ELSE IF r.status_code = 422 THEN "invalid amount"
    ELSE IF r.status_code = 400 /\ r.detail = "Amount must be greater than zero"
    THEN "invalid amount"
    ELSE IF r.status_code = 400 /\ r.detail = "Insufficient balance"
    THEN "insufficient balance"
    ELSE IF r.status_code = 404 /\ r.detail = "Recipient wallet not found"
    THEN "recipient not found"
    ELSE IF r.status_code = 400 /\ r.detail = "Cannot transfer to your own wallet"
    THEN "self transfer"
    ELSE "error"

\* C8: a transfer (no commit failing) succeeds iff amount > 0, the sender's
\* balance >= amount, a wallet has the recipient number and it is not the
\* sender's; otherwise it answers the first failing check in that order and
\* leaves balances and transactions unchanged.
C8_TransferValidation ==
    \A p \in TransferProcs :
        req[p].kind = "transfer" /\ Answered(p) =>
            /\ req[p].fault = "none" => Outcome(p) = ExpectedOutcome(p)
            /\ ExpectedOutcome(p) # "success" =>
                /\ Outcome(p) = ExpectedOutcome(p)
                /\ Latest(p) => /\ wallets = pre[p].wallets
                                /\ transactions = pre[p].transactions

\* A transfer of the sender's whole balance has succeeded, after a transfer
\* to the sender's own number for more than the balance was refused.
C8_Witness ==
    \E p, q \in TransferProcs :
        /\ p < q /\ Answered(p) /\ Answered(q)
        /\ req[p].kind = "transfer" /\ req[q].kind = "transfer"
        /\ Outcome(p) = "insufficient balance"
        /\ pre[p].wallets[req[p].sender_id].wallet_number = req[p].wallet_number
        /\ Outcome(q) = "success"
        /\ req[q].amount = pre[q].wallets[req[q].sender_id].balance

----------------------------------------------------------------------------
(* Properties of authentication *)

\* The permission a route requires of an API key.
Required(p) ==
    IF req[p].kind \in {"transfer", "deposit"} THEN req[p].kind ELSE "read"

\* The rows of the presented key that are effective when the request is
\* made: active, and now < expires_at.
EffectiveKeys(p) ==
    {k \in DOMAIN pre[p].api_keys :
        /\ pre[p].api_keys[k].key = req[p].x_api_key
        /\ pre[p].api_keys[k].is_active
        /\ pre[p].now < pre[p].api_keys[k].expires_at}

\* The bearer token verifies and its subject is an existing, active user.
TokenValid(p) ==
    /\ req[p].credentials.present /\ req[p].credentials.verifies
    /\ req[p].credentials.sub \in DOMAIN users
    /\ users[req[p].credentials.sub].is_active

WalletOperations == {"balance", "transfer", "deposit", "deposit_status", "transactions"}

Started(p) == req[p].kind \in WalletOperations /\ req[p].pc # "idle"

\* C9: a request with both an effective API key and a valid bearer token
\* acts as the key: the key is stamped as used, the route demands its
\* permission of the key's set (403 without it, whatever the token's user
\* may do), and with it the request runs for the key's owner on the owner's
\* wallet, not for the token's user.
C9_ApiKeyTakesPriority ==
    \A p \in AuthProcs :
        Started(p) /\ TokenValid(p) =>
            \A k \in EffectiveKeys(p) :
                /\ Latest(p) => api_keys[k].last_used_at = pre[p].now
                /\ IF Required(p) \in api_keys[k].permissions
                   THEN /\ req[p].api_key_id = k
                        /\ req[p].user_id = api_keys[k].user_id
                        /\ req[p].status_code \notin {401, 403}
                        /\ req[p].kind = "balance" =>
                            /\ wallets[req[p].wallet_id].user_id = api_keys[k].user_id
                            /\ req[p].balance = pre[p].wallets[req[p].wallet_id].balance
                        /\ req[p].kind = "transfer" =>
                            wallets[req[p].sender_id].user_id = api_keys[k].user_id
                   ELSE /\ req[p].status_code = 403
                        /\ req[p].debited = 0 /\ req[p].credited = 0

\* A transfer made with an effective key of one user and a valid token of
\* another has completed.
C9_Witness ==
    \E p \in AuthProcs :
        /\ Started(p) /\ TokenValid(p)
        /\ req[p].kind = "transfer" /\ req[p].status_code = 200
        /\ \E k \in EffectiveKeys(p) : api_keys[k].user_id # req[p].credentials.sub

\* C10 (as claimed): when the X-API-Key header is absent or names no
\* effective key (unknown, inactive, or now >= expires_at), a valid bearer
\* token authenticates the request as the token's user with every
\* permission; with no valid token either the request is answered 401 and
\* wallets, transactions and API keys are left as they were.
C10_FallBackToToken ==
    \A p \in AuthProcs :
        Started(p) /\ EffectiveKeys(p) = {} =>
            IF TokenValid(p)
            THEN /\ req[p].user_id = req[p].credentials.sub
                 /\ req[p].api_key_id = 0
                 /\ req[p].status_code \notin {401, 403}
            ELSE /\ req[p].status_code = 401
                 /\ Latest(p) => /\ wallets = pre[p].wallets
                                 /\ transactions = pre[p].transactions
                                 /\ api_keys = pre[p].api_keys

----------------------------------------------------------------------------
(* Properties of API key validation *)

\* C11 (as claimed): a request that presents an API key and no bearer token
\* is authenticated if and only if the key exists, is active and
\* now < expires_at; otherwise, the instant now = expires_at included, it is
\* answered 401.
C11_KeyValidIffActiveAndUnexpired ==
    \A p \in AuthProcs :
        Started(p) /\ req[p].x_api_key # "" /\ ~req[p].credentials.present =>
            (req[p].status_code # 401 <=> EffectiveKeys(p) # {})

----------------------------------------------------------------------------
(* Properties of the webhook *)

\* C19: a delivery whose signature is not the HMAC of its raw body under
\* the webhook secret is answered 401, whether or not the body parses, and
\* leaves every transaction and every balance as it was.
C19_BadSignatureRejected ==
    \A p \in SeqProcs :
        /\ req[p].kind = "webhook" /\ Answered(p)
        /\ req[p].signature # Signed(req[p].body)
        => /\ req[p].status_code = 401
           /\ req[p].credited = 0
           /\ Latest(p) => /\ wallets = pre[p].wallets
                           /\ transactions = pre[p].transactions

\* Two deliveries have been refused: one that carries the signature of
\* another payload for a pending deposit, and one that is not JSON.
C19_Witness ==
    \E p, q \in SeqProcs :
        /\ req[p].kind = "webhook" /\ Answered(p) /\ Answered(q)
        /\ req[p].signature = Signed(ChargeSuccess("DEP_A", 100, "success"))
        /\ req[p].body = ChargeSuccess("DEP_A", 250, "success")
        /\ req[q].body = Unparseable /\ req[q].signature # Signed(Unparseable)
        /\ TheTransaction("DEP_A").status = "pending"

\* C20 (as claimed): every correctly signed, parseable delivery (no commit
\* failing) is answered 200, whatever it holds.
C20_VerifiedDeliveryAnswered200 ==
    \A p \in SeqProcs :
        /\ req[p].kind = "webhook" /\ Answered(p)
        /\ req[p].signature = Signed(req[p].body)
        /\ Parses(req[p].body)
        /\ req[p].fault = "none"
        => req[p].status_code = 200

----------------------------------------------------------------------------
(* Properties of the permission check *)

\* C12: a wallet request made with an effective API key passes the
\* permission check iff the permission its route requires (read for
\* balance, transaction history and deposit status, deposit for deposit,
\* transfer for transfer) is in the key's set; a request made with a valid
\* bearer token and no API key always passes; and a request answered 403
\* has created no transaction and changed no balance.
C12_PermissionCheck ==
    \A p \in AuthProcs :
        Started(p) =>
            /\ \A k \in EffectiveKeys(p) :
                /\ req[p].status_code # 401
                /\ req[p].status_code # 403 <=> Required(p) \in api_keys[k].permissions
            /\ req[p].x_api_key = "" /\ TokenValid(p) =>
                req[p].status_code \notin {401, 403}
            /\ req[p].status_code = 403 =>
                /\ req[p].debited = 0 /\ req[p].credited = 0
                /\ Latest(p) => /\ wallets = pre[p].wallets
                                /\ transactions = pre[p].transactions

\* A deposit made with an effective key that holds only read has been
\* refused.
C12_Witness ==
    \E p \in AuthProcs :
        /\ Started(p) /\ req[p].kind = "deposit"
        /\ req[p].status_code = 403
        /\ \E k \in EffectiveKeys(p) : api_keys[k].permissions = {"read"}

----------------------------------------------------------------------------
(* Properties of API key management *)

\* The keys of a table that belong to user_id, are active and expire after t.
ActiveKeys(table, t, user_id) ==
    {k \in DOMAIN table :
        /\ table[k].user_id = user_id
        /\ table[k].is_active
        /\ table[k].expires_at > t}

KeysOf(table, user_id) == {k \in DOMAIN table : table[k].user_id = user_id}

Caller(p) == req[p].credentials.sub

\* C13: a create by a user (valid token) with valid permissions and
\* duration is answered 201 iff the caller has fewer than 5 keys that are
\* active and expire after now
\* (revoked and expired keys do not count); it then adds one key, of the
\* caller, and a refused create (400) adds none.
C13_CreateLimit ==
    \A p \in KeyProcs :
        /\ req[p].kind = "create_key" /\ Answered(p) /\ TokenValid(p)
        /\ req[p].permissions # {} /\ req[p].permissions \subseteq {"read", "deposit", "transfer"}
        =>
        LET n == Cardinality(ActiveKeys(pre[p].api_keys, pre[p].now, Caller(p))) IN
        /\ req[p].status_code = 201 <=> n < 5
        /\ req[p].status_code # 201 =>
            /\ req[p].status_code = 400
            /\ Latest(p) => api_keys = pre[p].api_keys
        /\ req[p].status_code = 201 /\ Latest(p) =>
            /\ DOMAIN api_keys = DOMAIN pre[p].api_keys \cup {req[p].new_key_id}
            /\ req[p].new_key_id \notin DOMAIN pre[p].api_keys
            /\ \A k \in DOMAIN pre[p].api_keys : api_keys[k] = pre[p].api_keys[k]
            /\ api_keys[req[p].new_key_id].user_id = Caller(p)
            /\ Cardinality(ActiveKeys(api_keys, now, Caller(p))) <= 5

\* The caller held five counted keys beside a revoked and an expired one;
\* one was revoked, and the create that followed was the fifth and succeeded.
C13_Witness ==
    \E p, q \in KeyProcs :
        /\ p < q /\ Answered(p) /\ Answered(q) /\ Latest(q)
        /\ req[p].kind = "revoke_key" /\ req[p].status_code = 200
        /\ Cardinality(ActiveKeys(pre[p].api_keys, pre[p].now, Caller(p))) = 5
        /\ req[q].kind = "create_key" /\ req[q].status_code = 201
        /\ Cardinality(ActiveKeys(pre[q].api_keys, pre[q].now, Caller(q))) = 4
        /\ Cardinality(KeysOf(pre[q].api_keys, Caller(q))) > 5

\* C14 (as claimed): however creates and rollovers interleave, no user has
\* more than 5 keys that are active and not expired.
C14_LimitUnderConcurrency ==
    \A u \in UserIds : Cardinality(ActiveKeys(api_keys, now, u)) <= 5


\* The request of p names a key that exists and belongs to its caller.
OwnKey(p) ==
    /\ req[p].key_id \in DOMAIN pre[p].api_keys
    /\ pre[p].api_keys[req[p].key_id].user_id = Caller(p)

RolledOver(p) == req[p].kind = "rollover_key" /\ Answered(p) /\ OwnKey(p)

\* C15: a rollover of the caller's own key is refused (400, nothing
\* created) while the key's expires_at is still ahead of now; once now is
\* past expires_at and the caller is below the limit it is answered 201 and
\* the new key is active, has a secret no other key has, expires after now
\* and holds exactly the old key's permissions; the old row is as it was.
C15_RolloverGuard ==
    \A p \in KeyProcs :
        RolledOver(p) =>
        LET old == pre[p].api_keys[req[p].key_id]
            n == Cardinality(ActiveKeys(pre[p].api_keys, pre[p].now, Caller(p)))
        IN
        /\ pre[p].now < old.expires_at =>
            /\ req[p].status_code = 400
            /\ req[p].detail = "Cannot rollover a key that has not expired"
            /\ Latest(p) => api_keys = pre[p].api_keys
        /\ pre[p].now > old.expires_at /\ n < 5 =>
            /\ req[p].status_code = 201
            /\ Latest(p) =>
                /\ req[p].new_key_id \notin DOMAIN pre[p].api_keys
                /\ DOMAIN api_keys = DOMAIN pre[p].api_keys \cup {req[p].new_key_id}
                /\ \A k \in DOMAIN pre[p].api_keys : api_keys[k] = pre[p].api_keys[k]
                /\ LET new == api_keys[req[p].new_key_id] IN
                    /\ new.is_active
                    /\ new.user_id = Caller(p)
                    /\ new.permissions = old.permissions
                    /\ new.expires_at > pre[p].now
                    /\ new.key = req[p].api_key
                    /\ \A k \in DOMAIN pre[p].api_keys : pre[p].api_keys[k].key # new.key

\* After a rollover of a live key was refused, the rollover of an expired
\* key has succeeded.
C15_Witness ==
    \E p, q \in KeyProcs :
        /\ RolledOver(p) /\ RolledOver(q) /\ Latest(q)
        /\ pre[p].now < pre[p].api_keys[req[p].key_id].expires_at
        /\ req[p].status_code = 400
        /\ pre[q].now > pre[q].api_keys[req[q].key_id].expires_at
        /\ req[q].status_code = 201

Revoked(p) == req[p].kind = "revoke_key" /\ Answered(p) /\ OwnKey(p)

\* C16: a revoke of the caller's own key is answered 200 and leaves the
\* table as it was but for that key's flag, which is false; revoking a
\* revoked key is answered 200 too and changes nothing.
C16_RevokeIdempotent ==
    \A p \in KeyProcs :
        Revoked(p) =>
            /\ req[p].status_code = 200
            /\ Latest(p) =>
                api_keys = [pre[p].api_keys EXCEPT ![req[p].key_id].is_active = FALSE]
            /\ Latest(p) /\ ~pre[p].api_keys[req[p].key_id].is_active =>
                api_keys = pre[p].api_keys

\* The same key has been revoked twice.
C16_Witness ==
    \E p, q \in KeyProcs :
        /\ p < q /\ Revoked(p) /\ Revoked(q) /\ Latest(q)
        /\ req[p].key_id = req[q].key_id
        /\ pre[p].api_keys[req[p].key_id].is_active
        /\ ~pre[q].api_keys[req[q].key_id].is_active

\* C17: a user's (valid token) revoke or rollover of a key id that no row
\* has is answered 404, and one of another user's key 403, whether or not
\* that key has expired;
\* either way no key is created and no flag changes.
C17_NotFoundAndForbidden ==
    \A p \in KeyProcs :
        req[p].kind \in {"revoke_key", "rollover_key"} /\ Answered(p) /\ TokenValid(p) =>
            /\ req[p].key_id \notin DOMAIN pre[p].api_keys =>
                req[p].status_code = 404
            /\ /\ req[p].key_id \in DOMAIN pre[p].api_keys
               /\ pre[p].api_keys[req[p].key_id].user_id # Caller(p)
               => req[p].status_code = 403
            /\ req[p].status_code \in {403, 404} /\ Latest(p) =>
                api_keys = pre[p].api_keys

\* A rollover of another user's key that has not expired was answered 403,
\* and a revoke of a key that does not exist 404.
C17_Witness ==
    \E p, q \in KeyProcs :
        /\ req[p].kind = "rollover_key" /\ Answered(p)
        /\ req[p].key_id \in DOMAIN pre[p].api_keys
        /\ pre[p].api_keys[req[p].key_id].user_id # Caller(p)
        /\ pre[p].now < pre[p].api_keys[req[p].key_id].expires_at
        /\ req[p].status_code = 403
        /\ req[q].kind = "revoke_key" /\ Answered(q)
        /\ req[q].status_code = 404

\* C18: a user's (valid token) listing holds all and only the caller's
\* keys, the later created before the earlier, each without its secret; and
\* a secret is shown only
\* by the create or rollover that made its key.
C18_ListingWithoutSecrets ==
    \A p \in KeyProcs :
        /\ req[p].kind = "list_keys" /\ Answered(p) /\ TokenValid(p) =>
            LET L == req[p].listing IN
            /\ req[p].status_code = 200
            /\ {L[i].id : i \in DOMAIN L} = KeysOf(pre[p].api_keys, Caller(p))
            /\ Len(L) = Cardinality(KeysOf(pre[p].api_keys, Caller(p)))
            /\ \A i, j \in DOMAIN L : i < j => L[i].created_at >= L[j].created_at
            /\ \A i \in DOMAIN L :
                /\ "key" \notin DOMAIN L[i]
                /\ L[i] = [f \in DOMAIN L[i] |-> pre[p].api_keys[L[i].id][f]]
        /\ req[p].api_key # NULL =>
            /\ req[p].kind \in {"create_key", "rollover_key"}
            /\ req[p].status_code = 201
            /\ req[p].new_key_id \notin DOMAIN pre[p].api_keys
            /\ api_keys[req[p].new_key_id].key = req[p].api_key

\* After a create, its caller's keys were listed: the new key first, and
\* two keys created at the same instant among them.
C18_Witness ==
    \E p, q \in KeyProcs :
        /\ p < q /\ req[p].kind = "create_key" /\ req[p].status_code = 201
        /\ req[q].kind = "list_keys" /\ Answered(q) /\ Caller(q) = Caller(p)
        /\ Len(req[q].listing) > 2
        /\ req[q].listing[1].id = req[p].new_key_id
        /\ \E i, j \in DOMAIN req[q].listing :
            i # j /\ req[q].listing[i].created_at = req[q].listing[j].created_at
        /\ KeysOf(api_keys, Caller(q)) # DOMAIN api_keys

\* The request of p is a delivery that verified and parsed.
Verified(p) ==
    /\ req[p].kind = "webhook"
    /\ req[p].signature = Signed(req[p].body)
    /\ Parses(req[p].body)

\* The rows that had the reference of p's delivery as their external
\* reference when the delivery arrived.
Matched(p) ==
    {t \in pre[p].transactions : t.paystack_reference = req[p].body.reference}

\* C21: a verified delivery of another event than charge.success, or of a
\* charge.success whose reference no transaction has, changes no
\* transaction and no wallet; it is answered 200 (but for a zero amount,
\* which is refused before the lookup).
C21_ForeignDeliveryIsNoOp ==
    \A p \in SeqProcs :
        /\ Verified(p) /\ Answered(p)
        /\ \/ req[p].body.event # "charge.success"
           \/ req[p].body.reference # NULL /\ Matched(p) = {}
        => /\ req[p].credited = 0
           /\ req[p].body.event # "charge.success" \/ req[p].body.amount # 0
                => req[p].status_code = 200
           /\ Latest(p) => /\ wallets = pre[p].wallets
                           /\ transactions = pre[p].transactions

\* Both kinds of foreign delivery have been answered: another event that
\* names a pending deposit, and a charge.success for an unknown reference.
C21_Witness ==
    \E p, q \in SeqProcs :
        /\ Verified(p) /\ Answered(p) /\ req[p].body.event = "transfer.success"
        /\ \E t \in Matched(p) : t.status = "pending"
        /\ Verified(q) /\ Answered(q) /\ req[q].body.event = "charge.success"
        /\ req[q].body.reference = "DEP_X" /\ Matched(q) = {}
        /\ req[q].body.status = "success"

\* The request of p is a verified charge.success delivery, with a reference
\* and an amount, for a row that had the status `was` when it arrived, and
\* no commit failed while it was handled.
Confirmation(p, was) ==
    /\ Verified(p) /\ Answered(p)
    /\ req[p].body.event = "charge.success"
    /\ req[p].body.reference # NULL /\ req[p].body.amount # 0
    /\ \E t \in Matched(p) : t.status = was
    /\ req[p].fault = "none"

\* C22: a verified charge.success delivery for a pending deposit that
\* reports another outcome than success makes the transaction Failed and
\* leaves every wallet, and every other transaction, as it was.
C22_FailedOutcomeMarksFailed ==
    \A p \in SeqProcs :
        Confirmation(p, "pending") /\ req[p].body.status # "success" =>
            /\ req[p].status_code = 200
            /\ req[p].credited = 0
            /\ Latest(p) =>
                /\ wallets = pre[p].wallets
                /\ transactions =
                    {IF t \in Matched(p) THEN [t EXCEPT !.status = "failed"] ELSE t :
                        t \in pre[p].transactions}

\* A delivery with outcome failed for a deposit that was pending has been
\* answered.
C22_Witness ==
    \E p \in SeqProcs :
        /\ Confirmation(p, "pending") /\ req[p].body.status = "failed"
        /\ Latest(p) /\ TheTransaction(req[p].body.reference).status = "failed"

\* C23 (as claimed): a delivery for a deposit that is no longer pending
\* (Success or Failed) credits nothing and leaves every transaction and
\* every wallet as it was.
C23_StatusLeavesPendingOnce ==
    \A p \in SeqProcs :
        /\ Verified(p) /\ Answered(p)
        /\ \E t \in Matched(p) : t.status # "pending"
        => /\ req[p].credited = 0
           /\ Latest(p) => /\ wallets = pre[p].wallets
                           /\ transactions = pre[p].transactions

\* C24: a charge.success delivery with outcome success for a pending
\* deposit raises the balance of the wallet the deposit was created on by
\* the amount the processor reports, a hundredth of a naira per kobo,
\* whatever amount the deposit was initialized with, and leaves every
\* other wallet as it was.
C24_CreditsReportedAmount ==
    \A p \in SeqProcs :
        Confirmation(p, "pending") /\ req[p].body.status = "success" /\ Latest(p) =>
            LET t == CHOOSE t \in Matched(p) : TRUE IN
            /\ DOMAIN wallets = DOMAIN pre[p].wallets
            /\ \A w \in DOMAIN wallets :
                IF w = t.wallet_id
                THEN /\ 100 * (wallets[w].balance - pre[p].wallets[w].balance)
                            = Decimal(req[p].body.amount)
                     /\ wallets[w] = [pre[p].wallets[w] EXCEPT
                                        !.balance = wallets[w].balance]
                ELSE wallets[w] = pre[p].wallets[w]

\* A deposit initialized with 2.00 on wallet 2 was confirmed with 250 kobo.
C24_Witness ==
    \E p \in SeqProcs :
        /\ Confirmation(p, "pending") /\ req[p].body.status = "success" /\ Latest(p)
        /\ \E t \in Matched(p) :
            /\ t.amount = 200 /\ t.wallet_id = 2
            /\ req[p].body.amount = 250
            /\ wallets[2].balance = pre[p].wallets[2].balance + 250

\* C28 (as claimed): a delivery that was answered with an error after a
\* commit failed leaves every transaction and every wallet as it was
\* before the delivery.
C28_FailedCreditRollsBack ==
    \A p \in SeqProcs :
        /\ Verified(p) /\ Answered(p) /\ Latest(p)
        /\ req[p].fault # "none" /\ req[p].status_code = 500
        => /\ wallets = pre[p].wallets
           /\ transactions = pre[p].transactions

\* C30 (as claimed): in every state the Transfer rows come in linked
\* pairs: a row with reference R on a wallet X has exactly one counterpart
\* with reference R_IN, on another wallet Y, of the same amount, both
\* Success, each naming the other's wallet number; and no R_IN row is
\* without its R row.
C30_TransfersInLinkedPairs ==
    \A p \in TransferProcs :
        LET R == TransferReference(p)
            out == {t \in transactions : t.reference = R}
            inn == {t \in transactions : t.reference = R \o "_IN"}
        IN
        /\ Cardinality(out) = Cardinality(inn)
        /\ Cardinality(out) <= 1
        /\ \A t \in out, u \in inn :
            /\ t.type = "transfer" /\ u.type = "transfer"
            /\ t.status = "success" /\ u.status = "success"
            /\ t.amount = u.amount
            /\ t.wallet_id # u.wallet_id
            /\ t.recipient_wallet_number = wallets[u.wallet_id].wallet_number
            /\ u.recipient_wallet_number = wallets[t.wallet_id].wallet_number

\* A request that presented the key of a revoked row, and no token, was
\* refused.
RevokedKeyRefused ==
    \A p \in KeyProcs :
        req[p].kind = "balance" /\ Answered(p) /\ ~req[p].credentials.present =>
            \A k \in DOMAIN pre[p].api_keys :
                /\ pre[p].api_keys[k].key = req[p].x_api_key
                /\ ~pre[p].api_keys[k].is_active
                => req[p].status_code = 401

\* No step deletes a revoked key or makes it active again.
StaysRevoked ==
    \A k \in DOMAIN api_keys :
        ~api_keys[k].is_active =>
            k \in DOMAIN api_keys' /\ ~api_keys'[k].is_active

\* C29: revocation is permanent: no step of a create, rollover, list,
\* revoke or authentication makes a revoked key active again, and every
\* request that authenticates with the key of a revoked row alone is
\* answered 401.
C29_RevocationIsPermanent == [](RevokedKeyRefused) /\ [][StaysRevoked]_vars

\* Key 1, active and not expired, was revoked, and a later balance read
\* with it, still before its expiry, was answered 401.
C29_Witness ==
    \E p, q \in KeyProcs :
        /\ p < q /\ Revoked(p) /\ req[p].status_code = 200
        /\ pre[p].api_keys[req[p].key_id].is_active
        /\ req[q].kind = "balance" /\ Answered(q)
        /\ req[q].x_api_key = pre[p].api_keys[req[p].key_id].key
        /\ pre[q].now < pre[q].api_keys[req[p].key_id].expires_at
        /\ req[q].status_code = 401 /\ req[q].detail = "Valid authentication required (JWT token or API key)"

\* C25: a status check writes nothing to the ledger: the step that handles
\* GET /wallet/deposit/{reference}/status, whatever the reference and the
\* transaction's status and whatever the deliveries in progress, leaves
\* every wallet and every transaction as it was, so deliveries interleaved
\* with status checks end as the deliveries alone do.
C25_StatusCheckIsReadOnly ==
    [][\A p \in Procs :
            req[p].pc = "idle" /\ req'[p].kind = "deposit_status" =>
                wallets' = wallets /\ transactions' = transactions]_vars

\* A status check was answered "success" between the two commits of a
\* delivery: the transaction already Success, the wallet not yet credited.
C25_Witness ==
    \E p, q \in Procs :
        /\ req[p].kind = "deposit_status" /\ Answered(p)
        /\ req[p].status_code = 200 /\ req[p].tx_status = "success"
        /\ req[q].kind = "webhook" /\ req[q].pc = "add_to_balance"
        /\ req[q].body.reference = req[p].reference
        /\ wallets = pre[p].wallets /\ transactions = pre[p].transactions

\* The wallet of the user a request acts for when it presents a token alone.
WalletOf(user_id) == CHOOSE w \in DOMAIN wallets : wallets[w].user_id = user_id

Inserted(p) ==
    req[p].kind = "deposit" /\ req[p].pc \in {"initialize_transaction", "done"}
        /\ req[p].status_code \in {0, 200, 400, 503}

\* Once the insert of a deposit is done there is one row with its
\* reference, which the ledger did not have when the request arrived, a
\* deposit of the requested amount on the caller's wallet whose external
\* reference is its own reference, whatever Paystack answered.
OnePendingRow ==
    \A p \in Procs :
        Inserted(p) =>
            LET rows == {t \in transactions : t.reference = DepositReference(p)} IN
            /\ Cardinality(rows) = 1
            /\ \A t \in pre[p].transactions : t.reference # DepositReference(p)
            /\ \A t \in rows :
                /\ t.type = "deposit"
                /\ t.amount = req[p].amount
                /\ t.wallet_id = WalletOf(Caller(p))
                /\ t.paystack_reference = t.reference

\* The steps of a deposit leave every wallet as it was, and the
\* transactions too, but for the one step that inserts the pending row.
DepositFrame ==
    \A p \in Procs :
        req'[p] # req[p] /\ req'[p].kind = "deposit" =>
            /\ wallets' = wallets
            /\ IF req[p].pc = "create_deposit" /\ req'[p].pc = "initialize_transaction"
               THEN \E t \in transactions' :
                        /\ t \notin transactions
                        /\ t.status = "pending"
                        /\ t.reference = DepositReference(p)
                        /\ transactions' = transactions \cup {t}
               ELSE transactions' = transactions

\* C26: initialize_deposit inserts exactly one row, a pending deposit on
\* the caller's wallet with its own reference as external reference, and
\* changes no wallet, whether Paystack answers, refuses or cannot be
\* reached.
C26_DepositCreatesOnePendingRow == [](OnePendingRow) /\ [][DepositFrame]_vars

\* One deposit was answered 503 and another 200, and the row of each is in
\* the ledger, pending.
C26_Witness ==
    \E p, q \in Procs :
        /\ Inserted(p) /\ req[p].status_code = 503
        /\ Inserted(q) /\ req[q].status_code = 200
        /\ \A r \in {p, q} : \E t \in transactions :
                t.reference = DepositReference(r) /\ t.status = "pending"

\* C27 (as claimed): whenever no sign-in is being handled, every user has
\* exactly one wallet, and a wallet that a sign-in created has balance 0.
C27_EveryUserHasOneWallet ==
    (\A p \in LoginProcs : req[p].pc \in {"idle", "done"}) =>
        /\ \A u \in DOMAIN users : Cardinality(get_by_user_id(u)) = 1
        /\ \A w \in DOMAIN wallets \ DOMAIN InitWallets : wallets[w].balance = 0

----------------------------------------------------------------------------
(* Properties of rollover and of the key routes *)

\* C31: a rollover, answered 201 or refused, leaves the row of the key it
\* names as it was (secret, name, permissions, flag, expires_at); after a
\* rollover that succeeded the old key is still expired.
C31_RolloverKeepsOldKey ==
    \A p \in KeyProcs :
        /\ req[p].kind = "rollover_key" /\ req[p].pc # "idle" /\ Latest(p)
        /\ req[p].key_id \in DOMAIN pre[p].api_keys
        =>
        /\ api_keys[req[p].key_id] = pre[p].api_keys[req[p].key_id]
        /\ req[p].status_code = 201 => is_expired(api_keys[req[p].key_id])

\* The rollover of an expired key was refused at the limit, and once a key
\* of the caller had expired the rollover of the same key succeeded.
C31_Witness ==
    \E p, q \in KeyProcs :
        /\ p < q /\ RolledOver(p) /\ RolledOver(q) /\ Latest(q)
        /\ req[p].key_id = req[q].key_id
        /\ req[p].status_code = 400 /\ req[q].status_code = 201
        /\ api_keys[req[q].key_id].is_active

\* C40: a rollover of the caller's own key that has been revoked goes as
\* that of any other key: once now is past its expires_at and the caller is
\* below the limit it is answered 201, each time it is asked, and the new
\* key is active and holds the old key's permissions; while its expires_at
\* is still ahead it is refused as not expired.
C40_RolloverIgnoresActiveFlag ==
    \A p \in KeyProcs :
        RolledOver(p) /\ ~pre[p].api_keys[req[p].key_id].is_active =>
        LET old == pre[p].api_keys[req[p].key_id]
            n == Cardinality(ActiveKeys(pre[p].api_keys, pre[p].now, Caller(p)))
        IN
        /\ pre[p].now > old.expires_at /\ n < MAX_ACTIVE_KEYS =>
            /\ req[p].status_code = 201
            /\ Latest(p) =>
                /\ api_keys[req[p].new_key_id].is_active
                /\ api_keys[req[p].new_key_id].permissions = old.permissions
                /\ api_keys[req[p].new_key_id].key # old.key
                /\ ~api_keys[req[p].key_id].is_active
        /\ pre[p].now < old.expires_at =>
            /\ req[p].status_code = 400
            /\ req[p].detail = "Cannot rollover a key that has not expired"

\* A key that is revoked and expired has been rolled over twice, and each
\* rollover made an active key.
C40_Witness ==
    \E p, q \in KeyProcs :
        /\ p < q /\ RolledOver(p) /\ RolledOver(q) /\ Latest(q)
        /\ req[p].key_id = req[q].key_id
        /\ ~pre[p].api_keys[req[p].key_id].is_active
        /\ req[p].status_code = 201 /\ req[q].status_code = 201
        /\ req[p].new_key_id # req[q].new_key_id
        /\ api_keys[req[p].new_key_id].is_active
        /\ api_keys[req[q].new_key_id].is_active

\* The rollover of a key that is revoked and has not expired was refused.
C40_WitnessNotExpired ==
    \E p \in KeyProcs :
        /\ RolledOver(p) /\ ~pre[p].api_keys[req[p].key_id].is_active
        /\ pre[p].now < pre[p].api_keys[req[p].key_id].expires_at
        /\ req[p].status_code = 400

\* C39: a request to a key route (create, rollover, revoke, list) that
\* carries no valid bearer token is refused (401 without a token that
\* verifies for a user that exists, 403 for a deactivated user), whatever
\* API key it presents: it shows no secret and no listing, and it leaves
\* the keys as they were.
C39_KeyRoutesRequireToken ==
    \A p \in KeyProcs :
        /\ req[p].kind \in {"create_key", "rollover_key", "revoke_key", "list_keys"}
        /\ req[p].pc # "idle" /\ ~TokenValid(p)
        =>
        /\ Answered(p)
        /\ req[p].status_code \in {401, 403}
        /\ ~req[p].credentials.present => req[p].status_code = 401
        /\ req[p].api_key = NULL /\ req[p].listing = <<>>
        /\ Latest(p) => api_keys = pre[p].api_keys

\* A create that presented a key which authenticates wallet requests, and
\* no token, was refused.
C39_Witness ==
    \E p \in KeyProcs :
        /\ req[p].kind = "create_key" /\ Answered(p)
        /\ ~req[p].credentials.present
        /\ EffectiveKeys(p) # {}
        /\ req[p].status_code = 401
        /\ api_keys = pre[p].api_keys

\* The bearer token of p verifies, and its subject is a user that has no
\* row or has been deactivated.
OwnerGone(p) ==
    /\ req[p].credentials.present /\ req[p].credentials.verifies
    /\ \/ req[p].credentials.sub \notin DOMAIN users
       \/ ~users[req[p].credentials.sub].is_active

\* C32 (as claimed): on every route, a request whose bearer token names a
\* user that does not exist or is inactive (and that presents no API key)
\* is answered 401.
C32_OwnerGoneIsUnauthenticated ==
    \A p \in KeyProcs :
        req[p].pc # "idle" /\ req[p].x_api_key = "" /\ OwnerGone(p) =>
            /\ Answered(p)
            /\ req[p].status_code = 401

\* C36 (as claimed): the key made by a create that is answered 201,
\* whatever accepted duration it asked for (a count of zero included), is
\* active and has expires_at strictly later than its creation time.
C36_CreatedActive ==
    \A p \in KeyProcs :
        /\ req[p].kind = "create_key" /\ Answered(p) /\ req[p].status_code = 201
        /\ ExpiryPattern(req[p].expiry)
        =>
        LET new == api_keys[req[p].new_key_id] IN
        /\ new.is_active
        /\ new.expires_at > new.created_at

\* The keys of user_id that authentication accepts now.
AcceptedKeys(user_id) ==
    {k \in DOMAIN api_keys :
        api_keys[k].user_id = user_id /\ is_valid(api_keys[k])}

\* C37 (as claimed): at every instant, the instant now = expires_at
\* included, the keys of a user that the limit counts are the keys that
\* authentication accepts, and an active key is counted iff a rollover would
\* refuse it as not expired; so no user has more than 5 keys that
\* authentication accepts.
C37_ActiveNotionsCoincide ==
    \A u \in UserIds :
        /\ count_active_keys(u) = Cardinality(AcceptedKeys(u))
        /\ \A k \in DOMAIN api_keys :
            api_keys[k].user_id = u /\ api_keys[k].is_active =>
                (k \in ActiveKeys(api_keys, now, u) <=> ~is_expired(api_keys[k]))
        /\ Cardinality(AcceptedKeys(u)) <= MAX_ACTIVE_KEYS

\* C37, the consequence alone: no user has more than 5 keys that
\* authentication accepts.
C37_AcceptedWithinLimit ==
    \A u \in UserIds : Cardinality(AcceptedKeys(u)) <= MAX_ACTIVE_KEYS

\* The wallets whose balance is lower than the request of p found it.
Debited(p) ==
    {w \in DOMAIN wallets : wallets[w].balance < pre[p].wallets[w].balance}

\* The owners of the rows of the key that the request of p presents.
KeyOwners(p) ==
    {pre[p].api_keys[k].user_id :
        k \in {j \in DOMAIN pre[p].api_keys :
                    pre[p].api_keys[j].key = req[p].x_api_key}}

\* C38: a wallet request decreases a balance only if it is a transfer, and
\* the wallet it debits is the wallet of its principal: of the owner of the
\* effective API key it presents, whatever valid token of another user
\* comes with it; of the user of its valid token when it presents no key or
\* one that no row has; and never of a user whose credential it does not
\* present.
C38_OnlyPrincipalDebited ==
    \A p \in AuthProcs :
        Started(p) /\ Latest(p) =>
            \A w \in Debited(p) :
                /\ req[p].kind = "transfer"
                /\ w = req[p].sender_id
                /\ \A k \in EffectiveKeys(p) :
                        wallets[w].user_id = pre[p].api_keys[k].user_id
                /\ KeyOwners(p) = {} =>
                        TokenValid(p) /\ wallets[w].user_id = req[p].credentials.sub
                /\ \/ wallets[w].user_id \in KeyOwners(p)
                   \/ TokenValid(p) /\ wallets[w].user_id = req[p].credentials.sub

\* A transfer that presented an effective key of user 2 and a valid token
\* of user 1 has debited wallet 2 and left wallet 1 as it was.
C38_Witness ==
    \E p \in AuthProcs :
        /\ Started(p) /\ Latest(p) /\ TokenValid(p)
        /\ req[p].credentials.sub = 1
        /\ \E k \in EffectiveKeys(p) : pre[p].api_keys[k].user_id = 2
        /\ Debited(p) = {2}
        /\ wallets[1].balance = pre[p].wallets[1].balance

----------------------------------------------------------------------------
(* Properties of wallet numbers *)

\* The sign-in of p is the one that made its user.
FirstSignIn(p) ==
    /\ req[p].user_id \in DOMAIN users \ DOMAIN InitUsers
    /\ \A q \in LoginProcs : q < p => req[q].google_id # req[p].google_id

\* C35 (as claimed): no two wallets have the same number, and the first
\* sign-in of a new identity, no commit failing, is answered 200 and leaves
\* the new user with a wallet, also when the first number drawn is that of
\* another wallet.
C35_CollisionRetried ==
    /\ \A v, w \in DOMAIN wallets :
            wallets[v].wallet_number = wallets[w].wallet_number => v = w
    /\ \A p \in LoginProcs :
            /\ req[p].kind = "google_callback" /\ Answered(p)
            /\ req[p].fault = "none"
            /\ FirstSignIn(p)
            =>
            /\ req[p].status_code = 200
            /\ get_by_user_id(req[p].user_id) # {}

----------------------------------------------------------------------------
(* Properties of the last-use stamp *)

\* C33 (as claimed): a balance read stamps last_used_at only on the key it
\* presented and was authenticated with, and whatever becomes of that
\* write, a read that presents an effective key is authenticated as that
\* key and answered.
C33_StampIsBestEffort ==
    \A p \in AuthProcs :
        req[p].kind = "balance" /\ Answered(p) /\ Latest(p) =>
            /\ \A k \in DOMAIN api_keys :
                    api_keys[k] # pre[p].api_keys[k] =>
                        /\ api_keys[k] = [pre[p].api_keys[k] EXCEPT !.last_used_at = pre[p].now]
                        /\ api_keys[k].key = req[p].x_api_key
                        /\ api_keys[k].is_active
                        /\ req[p].api_key_id = k
            /\ \A k \in EffectiveKeys(p) :
                    /\ req[p].status_code = 200
                    /\ req[p].api_key_id = k

----------------------------------------------------------------------------
(* Termination of transfers *)

\* The transfer of p has started and is not answered yet.
Pending(p) == req[p].kind = "transfer" /\ req[p].pc \notin {"idle", "done"}

\* Every transfer that is not answered yet has a statement that can run.
NoTransferBlocked == \A p \in Procs : Pending(p) => ENABLED TransferStep(p)

\* C34: no transfer is ever blocked, and under fair scheduling every
\* transfer that has started is answered, with success or an error, also
\* when transfers in opposite directions between the same two wallets are
\* handled concurrently.
C34_TransfersComplete ==
    /\ [](NoTransferBlocked)
    /\ \A p \in Procs : Pending(p) ~> Answered(p)

\* Two transfers in opposite directions between the same two wallets have
\* both debited their sender and are about to credit their recipient.
C34_Witness ==
    \E p, q \in Procs :
        /\ p # q
        /\ req[p].kind = "transfer" /\ req[p].pc = "add_to_balance"
        /\ req[q].kind = "transfer" /\ req[q].pc = "add_to_balance"
        /\ req[p].sender_id = req[q].recipient_id
        /\ req[q].sender_id = req[p].recipient_id

====
